---- MODULE Spec2Model ----
(***************************************************************************)
(* A model of scenic_driver_skia: the binary script decoder                *)
(* (lib.rs parse_script), the render state and the calls that mutate it    *)
(* (lib.rs), the dirty-flag render loop (raster_backend.rs run) and the    *)
(* script executor with its graphics-state stack (renderer.rs).            *)
(*                                                                         *)
(* Representation.  A byte is a number in 0..255 and a buffer a sequence   *)
(* of bytes.  An f32 is kept as the 32-bit pattern f32::from_bits was      *)
(* given, and so is an f32 the code computes from an integer (stroke       *)
(* width, font size, miter limit).  A skia Color is its packed ARGB word.  *)
(* A String is the sequence of its code points.  A ScriptOp is a record    *)
(* [op, n, s, e, cmds]: the variant's name, its numeric fields in          *)
(* declaration order, its string field, its enumerant and its sprite       *)
(* records.                                                                *)
(***************************************************************************)
EXTENDS Integers, Sequences, FiniteSets, TLC

VARIABLES
    script,         \* parse_script: the buffer handed to the decoder
    parsed,         \* parse_script: its Result, or Pending before the call
    built,          \* how the buffer was put together (the test's knowledge)
    render_state,   \* Arc<Mutex<RenderState>>: clear_color, scripts, root_id
    rs_lock,        \* who holds the render_state mutex
    dirty,          \* DriverHandle.dirty (AtomicBool)
    stop_flag,      \* StopSignal::Raster (AtomicBool)
    api,            \* the caller thread inside update_render_state
    api_result,     \* what the last finished API call returned
    rpc,            \* where the render thread is in raster_backend::run
    ex,             \* the executor: draw_script's frames, stack_ids, DrawState, canvas
    caches,         \* the ids in IMAGE_CACHE, STREAM_CACHE, FONT_CACHE; the system font
    gen,            \* number of successful mutations so far
    frame_gen,      \* the mutation count the last finished redraw read
    frame_base,     \* the render state a redraw in progress started from
    backend,        \* DriverHandle.stop's variant and what its backend has met
    input_events,   \* Arc<Mutex<InputQueue>>: events, target, notified
    mailbox,        \* the input_ready messages sent, each with its receiver
    drained         \* what each drain_input_events call returned, in order

parseVars  == <<script, parsed, built>>
storeVars  == <<render_state, rs_lock, dirty, stop_flag, api, api_result, gen>>
renderVars == <<rpc, ex, caches, frame_gen, frame_base>>
inputVars  == <<input_events, mailbox, drained>>
handleVars == <<backend, input_events, mailbox, drained>>
vars       == <<script, parsed, built, render_state, rs_lock, dirty, stop_flag,
                api, api_result, rpc, ex, caches, gen, frame_gen, frame_base,
                backend, input_events, mailbox, drained>>

----------------------------------------------------------------------------
(* Bytes, words and sequences                                               *)

Take(s, k) == SubSeq(s, 1, k)
Drop(s, k) == SubSeq(s, k + 1, Len(s))
Last(s) == s[Len(s)]
Front(s) == SubSeq(s, 1, Len(s) - 1)

\* u16::from_be_bytes
U16(b) == b[1] * 256 + b[2]
\* A 32-bit word is held as the two's-complement integer with the same 32
\* bits: a word whose top bit is set is the negative number of that pattern.
Top(byte) == IF byte >= 128 THEN byte - 256 ELSE byte
\* a from_be_bytes that takes the first byte as the lowest
U32LE(b) == ((Top(b[4]) * 256 + b[3]) * 256 + b[2]) * 256 + b[1]
\* u32::from_be_bytes
U32(b) == ((Top(b[1]) * 256 + b[2]) * 256 + b[3]) * 256 + b[4]
\* f32::from_bits(u32::from_be_bytes(..)): the float is its bit pattern
F32(b) == U32(b)
\* the position of the highest set bit of a u16 that is not 0
Log2(v) == CHOOSE e \in 0..15 : 2^e <= v /\ v < 2^(e + 1)
\* `v as f32` of a u16: exact, the exponent is Log2(v) and the 23-bit
\* fraction holds the bits of v under the highest one
F32OfU16(v) ==
    IF v = 0 THEN 0
    ELSE (Log2(v) + 127) * 8388608 + (v - 2^Log2(v)) * 2^(23 - Log2(v))
\* a decoder that takes the wire value as the number of units
DivNone(bits) == bits
\* `x / 4.0` of an f32 that is 0.0 or at least 1.0: zero stays zero, any
\* other loses 2 from its exponent field and keeps its fraction
DivFour(bits) == IF bits = 0 THEN 0 ELSE bits - 2 * 8388608
\* the bit patterns of 1.0, 2.0 and 4.0
F_ONE == \h3F800000
F_TWO == \h40000000
F_FOUR == \h40800000
\* skia_safe::Color::from_argb(a, r, g, b)
from_argb(a, r, g, b) == ((Top(a) * 256 + r) * 256 + g) * 256 + b
\* a decoder that takes the four bytes in the order they are stored
ColorOfArgb(b) == from_argb(b[1], b[2], b[3], b[4])
\* the colour of a 4-byte r,g,b,a field: from_argb(rgba[3], rgba[0], rgba[1], rgba[2])
ColorOfRgba(b) == from_argb(b[4], b[1], b[2], b[3])

\* String::from_utf8_lossy on bytes that are ASCII or the never-valid 0xFF:
\* an ASCII byte is its own code point, an invalid byte becomes U+FFFD
from_utf8_lossy(bytes) ==
    [i \in 1..Len(bytes) |-> IF bytes[i] < 128 THEN bytes[i] ELSE 65533]

\* ROOT_ID, "_root_"
ROOT_ID == <<95, 114, 111, 111, 116, 95>>

----------------------------------------------------------------------------
(* ScriptOp                                                                 *)

MkOp(name, nums, str, enum, cmds) ==
    [op |-> name, n |-> nums, s |-> str, e |-> enum, cmds |-> cmds]
NumOp(name, nums) == MkOp(name, nums, <<>>, "", <<>>)
StrOp(name, str) == MkOp(name, <<>>, str, "", <<>>)
EnumOp(name, enum) == MkOp(name, <<>>, <<>>, enum, <<>>)
VoidOp(name) == MkOp(name, <<>>, <<>>, "", <<>>)

----------------------------------------------------------------------------
(* parse_script                                                             *)

Ok(ops) == [ok |-> TRUE, ops |-> ops]
Err(msg) == [ok |-> FALSE, err |-> msg]

(* The arms that read a 2-byte header (reserved, or the fill/stroke flag)   *)
(* followed by 4-byte fields: <<tag, variant, truncation message, header    *)
(* is a flag, number of f32 fields, number of colour fields, number of      *)
(* u32 fields>>.  The length test of each arm is 2 + 4 * (fields).          *)
FixedTable ==
    { <<\h44, "Scissor",      "scissor opcode truncated",       FALSE, 2, 0, 0>>,
      <<\h20, "BeginPath",    "begin_path opcode truncated",    FALSE, 0, 0, 0>>,
      <<\h21, "ClosePath",    "close_path opcode truncated",    FALSE, 0, 0, 0>>,
      <<\h22, "FillPath",     "fill_path opcode truncated",     FALSE, 0, 0, 0>>,
      <<\h23, "StrokePath",   "stroke_path opcode truncated",   FALSE, 0, 0, 0>>,
      <<\h26, "MoveTo",       "move_to opcode truncated",       FALSE, 2, 0, 0>>,
      <<\h27, "LineTo",       "line_to opcode truncated",       FALSE, 2, 0, 0>>,
      <<\h28, "ArcTo",        "arc_to opcode truncated",        FALSE, 5, 0, 0>>,
      <<\h29, "BezierTo",     "bezier_to opcode truncated",     FALSE, 6, 0, 0>>,
      <<\h2A, "QuadraticTo",  "quadratic_to opcode truncated",  FALSE, 4, 0, 0>>,
      <<\h2B, "PathTriangle", "triangle opcode truncated",      FALSE, 6, 0, 0>>,
      <<\h2C, "PathQuad",     "quad opcode truncated",          FALSE, 8, 0, 0>>,
      <<\h2D, "PathRect",     "rect opcode truncated",          FALSE, 2, 0, 0>>,
      <<\h2E, "PathRRect",    "rrect opcode truncated",         FALSE, 3, 0, 0>>,
      <<\h2F, "PathSector",   "sector opcode truncated",        FALSE, 2, 0, 0>>,
      <<\h30, "PathCircle",   "circle opcode truncated",        FALSE, 1, 0, 0>>,
      <<\h31, "PathEllipse",  "ellipse opcode truncated",       FALSE, 2, 0, 0>>,
      <<\h32, "PathArc",      "arc opcode truncated",           FALSE, 5, 0, 1>>,
      <<\h40, "PushState",    "push_state opcode truncated",    FALSE, 0, 0, 0>>,
      <<\h41, "PopState",     "pop_state opcode truncated",     FALSE, 0, 0, 0>>,
      <<\h42, "PopPushState", "pop_push_state opcode truncated", FALSE, 0, 0, 0>>,
      <<\h60, "FillColor",    "fill_color opcode truncated",    FALSE, 0, 1, 0>>,
      <<\h61, "FillLinear",   "fill_linear opcode truncated",   FALSE, 4, 2, 0>>,
      <<\h62, "FillRadial",   "fill_radial opcode truncated",   FALSE, 4, 2, 0>>,
      <<\h50, "Transform",    "transform opcode truncated",     FALSE, 6, 0, 0>>,
      <<\h51, "Scale",        "scale opcode truncated",         FALSE, 2, 0, 0>>,
      <<\h52, "Rotate",       "rotate opcode truncated",        FALSE, 1, 0, 0>>,
      <<\h53, "Translate",    "translate opcode truncated",     FALSE, 2, 0, 0>>,
      <<\h01, "DrawLine",     "draw_line opcode truncated",     TRUE,  4, 0, 0>>,
      <<\h02, "DrawTriangle", "draw_triangle opcode truncated", TRUE,  6, 0, 0>>,
      <<\h03, "DrawQuad",     "draw_quad opcode truncated",     TRUE,  8, 0, 0>>,
      <<\h04, "DrawRect",     "draw_rect opcode truncated",     TRUE,  2, 0, 0>>,
      <<\h05, "DrawRRect",    "draw_rrect opcode truncated",    TRUE,  3, 0, 0>>,
      <<\h0C, "DrawRRectV",   "draw_rrectv opcode truncated",   TRUE,  6, 0, 0>>,
      <<\h06, "DrawArc",      "draw_arc opcode truncated",      TRUE,  2, 0, 0>>,
      <<\h07, "DrawSector",   "draw_sector opcode truncated",   TRUE,  2, 0, 0>>,
      <<\h08, "DrawCircle",   "draw_circle opcode truncated",   TRUE,  1, 0, 0>>,
      <<\h09, "DrawEllipse",  "draw_ellipse opcode truncated",  TRUE,  2, 0, 0>>,
      <<\h71, "StrokeColor",  "stroke_color opcode truncated",  FALSE, 0, 1, 0>>,
      <<\h72, "StrokeLinear", "stroke_linear opcode truncated", FALSE, 4, 2, 0>>,
      <<\h73, "StrokeRadial", "stroke_radial opcode truncated", FALSE, 4, 2, 0>> }

(* The arms that read a 2-byte length, the bytes and the padding:           *)
(* <<tag, variant, "opcode truncated" message, "payload truncated" message>> *)
StringTable ==
    { <<\h0F, "DrawScript",   "draw_script opcode truncated",   "draw_script payload truncated">>,
      <<\h63, "FillImage",    "fill_image opcode truncated",    "fill_image payload truncated">>,
      <<\h64, "FillStream",   "fill_stream opcode truncated",   "fill_stream payload truncated">>,
      <<\h0A, "DrawText",     "draw_text opcode truncated",     "draw_text payload truncated">>,
      <<\h74, "StrokeImage",  "stroke_image opcode truncated",  "stroke_image payload truncated">>,
      <<\h75, "StrokeStream", "stroke_stream opcode truncated", "stroke_stream payload truncated">>,
      <<\h90, "Font",         "font opcode truncated",          "font payload truncated">> }

(* The arms that read one u16 and match it against an enumeration:          *)
(* <<tag, variant, truncation message, invalid message, the enumerants of   *)
(* wire values 0, 1, ..>>                                                    *)
EnumTable ==
    { <<\h45, "ClipPath",   "clip_path opcode truncated",  "clip_path opcode invalid",
            <<"Intersect", "Difference">> >>,
      <<\h80, "StrokeCap",  "cap opcode truncated",        "cap opcode invalid",
            <<"Butt", "Round", "Square">> >>,
      <<\h81, "StrokeJoin", "join opcode truncated",       "join opcode invalid",
            <<"Bevel", "Round", "Miter">> >>,
      <<\h92, "TextAlign",  "text_align opcode truncated", "unsupported text_align value",
            <<"Left", "Center", "Right">> >>,
      <<\h93, "TextBase",   "text_base opcode truncated",  "unsupported text_base value",
            <<"Top", "Middle", "Alphabetic", "Bottom">> >> }

(* The arms that read one u16 as a number: <<tag, variant, message, the     *)
(* value is divided by 4.0>>.  StrokeWidth and FontSize are                 *)
(* `v as f32 / 4.0`, StrokeMiterLimit is `v as f32`.                        *)
WordTable ==
    { <<\h70, "StrokeWidth",      "stroke_width opcode truncated", TRUE>>,
      <<\h82, "StrokeMiterLimit", "miter_limit opcode truncated",  FALSE>>,
      <<\h91, "FontSize",         "font_size opcode truncated",    TRUE>> }

DRAW_SPRITES == \h0B

FixedTags == {r[1] : r \in FixedTable}
StringTags == {r[1] : r \in StringTable}
EnumTags == {r[1] : r \in EnumTable}
WordTags == {r[1] : r \in WordTable}
SupportedTags == FixedTags \cup StringTags \cup EnumTags \cup WordTags \cup {DRAW_SPRITES}
RowOf(table, tag) == CHOOSE r \in table : r[1] = tag

\* a padding that is never empty
PadAlways(len) == 4 - (len % 4)
\* pad = (4 - (len % 4)) % 4
PadOf(len) == (4 - (len % 4)) % 4

\* the k 4-byte fields that start after `skip` bytes of b, each read by `rd`
Words(b, skip, k, rd(_)) ==
    [i \in 1..k |-> rd(SubSeq(b, skip + 4 * (i - 1) + 1, skip + 4 * i))]

\* One arm of the match: the operation and the rest of the buffer, or the error.
\* `rest` is the buffer after the 2-byte tag.
Step(o, r) == [ok |-> TRUE, op |-> o, rest |-> r]

ParseFixed(row, rest) ==
    LET need == 2 + 4 * (row[5] + row[6] + row[7])
        floats == Words(rest, 2, row[5], F32)
        colors == Words(rest, 2 + 4 * row[5], row[6], ColorOfRgba)
        words == Words(rest, 2 + 4 * (row[5] + row[6]), row[7], U32)
        flag == IF row[4] THEN <<U16(rest)>> ELSE <<>>
    IN  IF Len(rest) < need
        THEN Err(row[3])
        ELSE Step(NumOp(row[2], floats \o colors \o words \o flag), Drop(rest, need))

\* a string arm that asks for the bytes of the string and not for its padding
ParseStringNoPad(row, rest) ==
    IF Len(rest) < 2
    THEN Err(row[3])
    ELSE LET len == U16(rest)
             tail == Drop(rest, 2)
         IN  IF Len(tail) < len
             THEN Err(row[4])
             ELSE Step(StrOp(row[2], from_utf8_lossy(Take(tail, len))),
                       Drop(tail, len + PadOf(len)))

ParseString(row, rest) ==
    IF Len(rest) < 2
    THEN Err(row[3])
    ELSE LET len == U16(rest)
             tail == Drop(rest, 2)
             pad == PadOf(len)
             total == len + pad
         IN  IF Len(tail) < total
             THEN Err(row[4])
             ELSE Step(StrOp(row[2], from_utf8_lossy(Take(tail, len))),
                       Drop(tail, total))

\* an enum arm that takes a wire value past the enumeration as its last enumerant
ParseEnumClamped(row, rest) ==
    IF Len(rest) < 2
    THEN Err(row[3])
    ELSE LET v == U16(rest)
         IN  Step(EnumOp(row[2], row[5][IF v < Len(row[5]) THEN v + 1 ELSE Len(row[5])]),
                  Drop(rest, 2))

ParseEnum(row, rest) ==
    IF Len(rest) < 2
    THEN Err(row[3])
    ELSE LET v == U16(rest)
         IN  IF v < Len(row[5])
             THEN Step(EnumOp(row[2], row[5][v + 1]), Drop(rest, 2))
             ELSE Err(row[4])

ParseWord(row, rest) ==
    IF Len(rest) < 2
    THEN Err(row[3])
    ELSE LET v == F32OfU16(U16(rest))
         IN  Step(NumOp(row[2], <<IF row[4] THEN DivFour(v) ELSE v>>), Drop(rest, 2))

\* one 36-byte sprite record: sx, sy, sw, sh, dx, dy, dw, dh, alpha
SpriteCommand(cmd) == Words(cmd, 0, 9, F32)

\* a sprite arm that reads the identifier behind its length and the count
\* behind the identifier's padding
ParseSpritesIdFirst(rest) ==
    IF Len(rest) < 6
    THEN Err("draw_sprites opcode truncated")
    ELSE LET len == U16(rest)
             tail == Drop(rest, 2)
             total == len + PadOf(len)
             count == U32(SubSeq(tail, total + 1, total + 4))
             body == Drop(tail, total + 4)
         IN  IF Len(tail) < total + 4
             THEN Err("draw_sprites payload truncated")
             ELSE IF count < 0 \/ count > Len(body) \/ Len(body) < count * 9 * 4
             THEN Err("draw_sprites command data truncated")
             ELSE Step(MkOp("DrawSprites", <<>>, from_utf8_lossy(Take(tail, len)), "",
                            [i \in 1..count |->
                                SpriteCommand(SubSeq(body, 36 * (i - 1) + 1, 36 * i))]),
                       Drop(body, count * 9 * 4))

ParseSprites(rest) ==
    IF Len(rest) < 6
    THEN Err("draw_sprites opcode truncated")
    ELSE LET len == U16(rest)
             count == U32(SubSeq(rest, 3, 6))
             tail == Drop(rest, 6)
             pad == PadOf(len)
             total == len + pad
             body == Drop(tail, total)
             \* count * 9 * 4 in usize; a count with the top bit set, or above
             \* the bytes left, asks for more bytes than the buffer has
             short == count < 0 \/ count > Len(body)
             cmd_bytes == IF short THEN 0 ELSE count * 9 * 4
         IN  IF Len(tail) < total
             THEN Err("draw_sprites payload truncated")
             ELSE IF short \/ Len(body) < cmd_bytes
             THEN Err("draw_sprites command data truncated")
             ELSE Step(MkOp("DrawSprites", <<>>, from_utf8_lossy(Take(tail, len)), "",
                            [i \in 1..count |->
                                SpriteCommand(SubSeq(body, 36 * (i - 1) + 1, 36 * i))]),
                       Drop(body, cmd_bytes))

\* a match whose default arm skips the tag it does not know
ParseArmSkipping(opcode, rest) ==
    IF opcode \in FixedTags THEN ParseFixed(RowOf(FixedTable, opcode), rest)
    ELSE IF opcode \in StringTags THEN ParseString(RowOf(StringTable, opcode), rest)
    ELSE IF opcode \in EnumTags THEN ParseEnum(RowOf(EnumTable, opcode), rest)
    ELSE IF opcode \in WordTags THEN ParseWord(RowOf(WordTable, opcode), rest)
    ELSE IF opcode = DRAW_SPRITES THEN ParseSprites(rest)
    ELSE Step(VoidOp("PushState"), rest)

ParseArm(opcode, rest) ==
    IF opcode \in FixedTags THEN ParseFixed(RowOf(FixedTable, opcode), rest)
    ELSE IF opcode \in StringTags THEN ParseString(RowOf(StringTable, opcode), rest)
    ELSE IF opcode \in EnumTags THEN ParseEnum(RowOf(EnumTable, opcode), rest)
    ELSE IF opcode \in WordTags THEN ParseWord(RowOf(WordTable, opcode), rest)
    ELSE IF opcode = DRAW_SPRITES THEN ParseSprites(rest)
    ELSE Err("unsupported opcode")

\* a decoder that answers a failing arm with the operations decoded so far
ParsePartial(ops, err) == [ok |-> TRUE, ops |-> ops]

\* what the loop does with one arm's error: return it, dropping `ops`
ParseFail(ops, err) == err

RECURSIVE ParseLoop(_, _)
ParseLoop(rest, ops) ==
    IF Len(rest) >= 2
    THEN LET arm == ParseArm(U16(rest), Drop(rest, 2))
         IN  IF arm.ok
             THEN ParseLoop(arm.rest, Append(ops, arm.op))
             ELSE ParseFail(ops, arm)
    ELSE Ok(ops)

parse_script(buf) == ParseLoop(buf, <<>>)

----------------------------------------------------------------------------
(* RenderState and the closures update_render_state runs on it              *)

WHITE == from_argb(255, 255, 255, 255)
BLACK == from_argb(255, 0, 0, 0)
TRANSPARENT == from_argb(0, 0, 0, 0)

\* Option<T>: None is the empty sequence, Some(x) the one-element sequence
None == <<>>
Some(x) == <<x>>
IsSome(o) == Len(o) > 0

\* RenderState::default()
DefaultRenderState ==
    [clear_color |-> WHITE, scripts |-> <<>>, root_id |-> None]

\* HashMap::insert and HashMap::remove on a map kept as a function
MapInsert(m, k, v) == [x \in DOMAIN m \cup {k} |-> IF x = k THEN v ELSE m[x]]
MapRemove(m, k) == [x \in DOMAIN m \ {k} |-> m[x]]

\* the root designation set_script leaves after inserting `id`
RootAfterInsert(state, id) == IF id = ROOT_ID THEN Some(id) ELSE state.root_id

\* a set_script that designates whatever id it installs
set_script_any_root(state, id, ops) ==
    [state EXCEPT !.scripts = MapInsert(state.scripts, id, ops), !.root_id = Some(id)]

set_script(state, id, ops) ==
    [state EXCEPT !.scripts = MapInsert(state.scripts, id, ops),
                  !.root_id = RootAfterInsert(state, id)]

\* A closure works on `&mut RenderState`: its result is Ok or the error, and
\* the state as the closure left it when it returned.
Done(state) == [ok |-> TRUE, state |-> state, err |-> ""]
Failed(state, err) == [ok |-> FALSE, state |-> state, err |-> err]

\* a submit closure that empties the id's script before it decodes
SubmitClosureClearing(state, id, bin) ==
    LET r == parse_script(bin)
    IN  IF r.ok THEN Done(set_script(state, id, r.ops))
        ELSE Failed(set_script(state, id, <<>>), r.err)

\* submit_script_with_id's closure; submit_script is the same with ROOT_ID
SubmitClosure(state, id, bin) ==
    LET r == parse_script(bin)
    IN  IF r.ok THEN Done(set_script(state, id, r.ops)) ELSE Failed(state, r.err)

\* submit_scripts' first loop: parse every buffer, `?` returning the first error
RECURSIVE StageScripts(_, _)
StageScripts(scripts, staged) ==
    IF scripts = <<>>
    THEN [ok |-> TRUE, staged |-> staged]
    ELSE LET r == parse_script(scripts[1][2])
         IN  IF r.ok
             THEN StageScripts(Tail(scripts), Append(staged, <<scripts[1][1], r.ops>>))
             ELSE r

\* submit_scripts' second loop: set_script for every staged pair, in order
RECURSIVE InstallStaged(_, _)
InstallStaged(state, staged) ==
    IF staged = <<>>
    THEN state
    ELSE InstallStaged(set_script(state, staged[1][1], staged[1][2]), Tail(staged))

\* a submit_scripts that installs each script as soon as it has decoded
RECURSIVE SubmitManyEager(_, _)
SubmitManyEager(state, scripts) ==
    IF scripts = <<>>
    THEN Done(state)
    ELSE LET r == parse_script(scripts[1][2])
         IN  IF r.ok
             THEN SubmitManyEager(set_script(state, scripts[1][1], r.ops), Tail(scripts))
             ELSE Failed(state, r.err)

SubmitManyClosure(state, scripts) ==
    LET st == StageScripts(scripts, <<>>)
    IN  IF st.ok THEN Done(InstallStaged(state, st.staged)) ELSE Failed(state, st.err)

\* a del_script closure that clears the root designation whatever the id
DelClearsRoot(state, id) ==
    Done([state EXCEPT !.scripts = MapRemove(state.scripts, id), !.root_id = None])

\* a del_script closure that leaves the root designation alone
DelKeepsRoot(state, id) ==
    Done([state EXCEPT !.scripts = MapRemove(state.scripts, id)])

DelClosure(state, id) ==
    Done([state EXCEPT !.scripts = MapRemove(state.scripts, id),
                       !.root_id = IF state.root_id = Some(id) THEN None
                                   ELSE state.root_id])

\* a reset_scene closure that empties the map and leaves the root id
ResetKeepsRoot(state) == Done([state EXCEPT !.scripts = <<>>])

\* the closure of reset_scene
ResetClosure(state) ==
    Done([state EXCEPT !.scripts = <<>>, !.root_id = None])

\* color is (r, g, b, a): Color::from_argb(color.3, color.0, color.1, color.2)
ClearColorClosure(state, color) ==
    Done([state EXCEPT !.clear_color = ColorOfRgba(color)])

\* script_count: render_state.scripts.len()
script_count(state) == Cardinality(DOMAIN state.scripts)

----------------------------------------------------------------------------
(* DrawState, renderer.rs                                                   *)

\* DrawState::DEFAULT_FONT_SIZE, 20.0
DEFAULT_FONT_SIZE == \h41A00000

\* DrawStateSnapshot::default()
DefaultSnapshot ==
    [fill_color |-> BLACK, fill_shader |-> None,
     stroke_color |-> BLACK, stroke_shader |-> None,
     stroke_width |-> F_ONE, stroke_cap |-> "Butt", stroke_join |-> "Miter",
     stroke_miter_limit |-> F_FOUR, path |-> None, font_id |-> None,
     font_size |-> DEFAULT_FONT_SIZE, text_align |-> "Left",
     text_base |-> "Alphabetic"]

SnapshotFields == DOMAIN DefaultSnapshot

\* DrawState::default(): the thirteen fields and an empty snapshot stack
DefaultDrawState ==
    [f \in SnapshotFields \cup {"stack"} |->
        IF f = "stack" THEN <<>> ELSE DefaultSnapshot[f]]

\* a snapshot that leaves the path and the font out
SnapshotPartial(ds) ==
    [f \in SnapshotFields |->
        IF f \in {"path", "font_id"} THEN DefaultSnapshot[f] ELSE ds[f]]

\* the snapshot DrawState::push builds from the current fields
SnapshotOf(ds) == [f \in SnapshotFields |-> ds[f]]

\* DrawState::apply_snapshot
apply_snapshot(ds, snapshot) ==
    [f \in DOMAIN ds |-> IF f = "stack" THEN ds.stack ELSE snapshot[f]]

\* a can_pop that lets every PopState through to pop()
can_pop_always(ds) == TRUE

\* DrawState::can_pop
can_pop(ds) == ds.stack # <<>>

\* DrawState::push
push(ds) == [ds EXCEPT !.stack = Append(ds.stack, SnapshotOf(ds))]

\* a stack whose pop reads the top snapshot and leaves it on the stack
StackPeek(stack) ==
    IF stack = <<>>
    THEN [snapshot |-> DefaultSnapshot, stack |-> <<>>]
    ELSE [snapshot |-> Last(stack), stack |-> stack]

\* self.stack.pop().unwrap_or_default(): the snapshot and the stack left
StackPop(stack) ==
    IF stack = <<>>
    THEN [snapshot |-> DefaultSnapshot, stack |-> <<>>]
    ELSE [snapshot |-> Last(stack), stack |-> Front(stack)]

\* DrawState::pop
pop(ds) ==
    LET p == StackPop(ds.stack)
    IN  apply_snapshot([ds EXCEPT !.stack = p.stack], p.snapshot)

\* a pop_push that does not push the snapshot back
pop_push_drop(ds) ==
    LET p == StackPop(ds.stack)
    IN  apply_snapshot([ds EXCEPT !.stack = p.stack], p.snapshot)

\* DrawState::pop_push
pop_push(ds) ==
    LET p == StackPop(ds.stack)
        applied == apply_snapshot([ds EXCEPT !.stack = p.stack], p.snapshot)
    IN  [applied EXCEPT !.stack = Append(p.stack, p.snapshot)]

----------------------------------------------------------------------------
(* The canvas.  Its state is the current matrix and clip (each the list of  *)
(* what was applied to it), the stack canvas.save() pushes them on, and     *)
(* the calls made on it during the frame.                                   *)

NoPaint ==
    [style |-> "", color |-> 0, shader |-> None, width |-> 0,
     cap |-> "", join |-> "", miter |-> 0, alpha |-> 0]

\* Paint::default() as far as the executor sets it: anti-aliased, the style,
\* and for a stroke the stroke geometry
apply_fill_paint(ds) ==
    [NoPaint EXCEPT !.style = "Fill",
                    !.shader = ds.fill_shader,
                    !.color = IF IsSome(ds.fill_shader) THEN WHITE ELSE ds.fill_color]

apply_stroke_paint(ds) ==
    [NoPaint EXCEPT !.style = "Stroke",
                    !.width = ds.stroke_width,
                    !.cap = ds.stroke_cap,
                    !.join = ds.stroke_join,
                    !.miter = ds.stroke_miter_limit,
                    !.shader = ds.stroke_shader,
                    !.color = IF IsSome(ds.stroke_shader) THEN WHITE ELSE ds.stroke_color]

\* one call on the canvas: its name, its numbers, its paint and its path
Call(name, nums, paint, path) ==
    [call |-> name, n |-> nums, paint |-> paint, path |-> path]

NewCanvas == [m |-> <<>>, clip |-> <<>>, saved |-> <<>>, log |-> <<>>]

Log(cv, c) == [cv EXCEPT !.log = Append(cv.log, c)]

\* canvas.save()
CanvasSave(cv) ==
    Log([cv EXCEPT !.saved = Append(cv.saved, [m |-> cv.m, clip |-> cv.clip])],
        Call("save", <<>>, NoPaint, None))

\* canvas.restore(): nothing to restore leaves matrix and clip alone
CanvasRestore(cv) ==
    Log(IF cv.saved = <<>> THEN cv
        ELSE [cv EXCEPT !.m = Last(cv.saved).m, !.clip = Last(cv.saved).clip,
                        !.saved = Front(cv.saved)],
        Call("restore", <<>>, NoPaint, None))

\* translate, rotate, scale, concat: appended to the current matrix
CanvasConcat(cv, name, nums) ==
    Log([cv EXCEPT !.m = Append(cv.m, <<name, nums>>)], Call(name, nums, NoPaint, None))

\* clip_rect and clip_path: appended to the current clip, in device space
CanvasClip(cv, name, nums, mode, path) ==
    Log([cv EXCEPT !.clip = Append(cv.clip, <<name, nums, mode, cv.m, path>>)],
        Call(name, nums, [NoPaint EXCEPT !.style = mode], path))

\* a drawing call
CanvasDraw(cv, name, nums, paint, path) == Log(cv, Call(name, nums, paint, path))

\* the calls of the frame that draw (everything but save, restore, the
\* transforms and the clips)
DrawCalls(log) ==
    SelectSeq(log, LAMBDA c : c.paint.style \in {"Fill", "Stroke", "Image"})

----------------------------------------------------------------------------
(* Resource caches: the ids IMAGE_CACHE, STREAM_CACHE and FONT_CACHE hold   *)

IdA == <<97>>
IdB == <<98>>
IdC == <<99>>

\* load_static_shader / load_stream_shader: the image's shader when cached
ImageShader(cache, id) ==
    IF id \in cache THEN Some([kind |-> "image", n |-> <<>>, s |-> id]) ELSE None

\* an f32 is finite when its exponent bits are not all ones
F32Finite(bits) == (bits \div 8388608) % 256 # 255
\* an f32 is < 0.0 when the sign bit is set and it is neither -0.0 nor a NaN
F32Negative(bits) ==
    /\ bits < 0
    /\ bits # -2147483647 - 1
    /\ bits <= U32(<<255, 128, 0, 0>>)

\* Shader::linear_gradient(points, colors, Clamp): an Option, None when the
\* distance between the two points is not finite; n is
\* <<start_x, start_y, end_x, end_y, start_color, end_color>>
LinearShader(n) ==
    IF \A i \in 1..4 : F32Finite(n[i])
    THEN Some([kind |-> "linear", n |-> n, s |-> <<>>])
    ELSE None

\* radial_shader: radial_gradient when inner_radius <= 0.0, else two-point
\* conical.  An f32 is <= 0.0 when it is +0.0, or has the sign bit set and
\* is not a NaN (exponent all ones, mantissa not zero: above -Infinity's
\* pattern 0xFF800000).
F32LeZero(bits) == bits = 0 \/ (bits < 0 /\ bits <= U32(<<255, 128, 0, 0>>))
\* n is <<center_x, center_y, inner_radius, outer_radius, start_color,
\* end_color>>; both constructors return None for a negative radius or a
\* centre or radius that is not finite
RadialShader(n) ==
    IF (\A i \in 1..4 : F32Finite(n[i])) /\ ~F32Negative(n[4])
    THEN Some([kind |-> IF F32LeZero(n[3]) THEN "radial" ELSE "conical",
               n |-> n, s |-> <<>>])
    ELSE None

\* a set_fill_image_shader that leaves the shader in place when handed none
set_fill_image_keep(ds, shader) ==
    IF IsSome(shader)
    THEN [ds EXCEPT !.fill_shader = shader, !.fill_color = WHITE]
    ELSE [ds EXCEPT !.fill_color = TRANSPARENT]

\* set_fill_image_shader
set_fill_image_shader(ds, shader) ==
    IF IsSome(shader)
    THEN [ds EXCEPT !.fill_shader = shader, !.fill_color = WHITE]
    ELSE [ds EXCEPT !.fill_shader = None, !.fill_color = TRANSPARENT]

\* set_stroke_image_shader
set_stroke_image_shader(ds, shader) ==
    IF IsSome(shader)
    THEN [ds EXCEPT !.stroke_shader = shader, !.stroke_color = WHITE]
    ELSE [ds EXCEPT !.stroke_shader = None, !.stroke_color = TRANSPARENT]

----------------------------------------------------------------------------
(* draw_script: what each arm of the match does to the DrawState and the    *)
(* canvas.  `res` is [images, streams, fonts, default_font]: the ids each   *)
(* cache holds and whether the system has the built-in font.                *)

\* PathBuilder: the verbs appended so far
Verb(name, nums) == <<name, nums>>

\* draw_state.path.get_or_insert_with(PathBuilder::new), then one more verb
PathAppend(ds, name, nums) ==
    LET cur == IF IsSome(ds.path) THEN ds.path[1] ELSE <<>>
    IN  [ds EXCEPT !.path = Some(Append(cur, Verb(name, nums)))]

\* the ArcTo arm: the path is created, the arc added only to a non-empty one
PathArcTo(ds, nums) ==
    IF IsSome(ds.path) /\ ds.path[1] # <<>>
    THEN PathAppend(ds, "ArcTo", nums)
    ELSE [ds EXCEPT !.path = Some(<<>>)]

\* a stroke test that takes any bit above bit 0 for the stroke bit
FlagStrokeAnyHigh(flag) == flag \div 2 # 0

\* flag & 0x01 == 0x01 and flag & 0x02 == 0x02
FlagFill(flag) == flag % 2 = 1
FlagStroke(flag) == (flag \div 2) % 2 = 1

\* the two `if flag & ..` blocks of an immediate-draw arm: the fill call,
\* then the stroke call, of the canvas primitive `name`
DrawFlagged(ds, cv, name, nums, flag) ==
    LET filled == IF FlagFill(flag)
                  THEN CanvasDraw(cv, name, nums, apply_fill_paint(ds), None)
                  ELSE cv
    IN  IF FlagStroke(flag)
        THEN CanvasDraw(filled, name, nums, apply_stroke_paint(ds), None)
        ELSE filled

\* the DrawLine arm: only the stroke block exists
DrawLineArm(ds, cv, nums, flag) ==
    IF FlagStroke(flag)
    THEN CanvasDraw(cv, "draw_line", nums, apply_stroke_paint(ds), None)
    ELSE cv

\* the FillPath arm: draw a clone of the path, the path stays
FillPathArm(ds, cv) ==
    [ds |-> ds,
     cv |-> IF IsSome(ds.path)
            THEN CanvasDraw(cv, "draw_path", <<>>, apply_fill_paint(ds), ds.path)
            ELSE cv]

\* a StrokePath that reads the path as FillPath does, without taking it
StrokePathKeep(ds, cv) ==
    [ds |-> ds,
     cv |-> IF IsSome(ds.path)
            THEN CanvasDraw(cv, "draw_path", <<>>, apply_stroke_paint(ds), ds.path)
            ELSE cv]

\* the StrokePath arm: draw_state.path.take(), then draw what was taken
StrokePathArm(ds, cv) ==
    [ds |-> [ds EXCEPT !.path = None],
     cv |-> IF IsSome(ds.path)
            THEN CanvasDraw(cv, "draw_path", <<>>, apply_stroke_paint(ds), ds.path)
            ELSE cv]

\* the ClipPath arm
ClipPathArm(ds, cv, mode) ==
    [ds |-> ds,
     cv |-> IF IsSome(ds.path)
            THEN CanvasClip(cv, "clip_path", <<>>, mode, ds.path)
            ELSE cv]

\* the PushState arm
PushStateArm(ds, cv) == [ds |-> push(ds), cv |-> CanvasSave(cv)]

\* the PopState arm
PopStateArm(ds, cv) ==
    IF can_pop(ds)
    THEN [ds |-> pop(ds), cv |-> CanvasRestore(cv)]
    ELSE [ds |-> ds, cv |-> cv]

\* the PopPushState arm
PopPushStateArm(ds, cv) ==
    IF can_pop(ds)
    THEN [ds |-> pop_push(ds), cv |-> CanvasSave(CanvasRestore(cv))]
    ELSE [ds |-> ds, cv |-> cv]

\* font_from_asset for a selected id, default_font when none is selected
ResolveFont(ds, res) ==
    IF IsSome(ds.font_id)
    THEN (IF ds.font_id[1] \in res.fonts THEN Some(ds.font_id[1]) ELSE None)
    ELSE (IF res.default_font THEN Some(<<>>) ELSE None)

\* the DrawText arm
DrawTextArm(ds, cv, text, res) ==
    LET font == ResolveFont(ds, res)
    IN  IF IsSome(font) /\ text # <<>>
        THEN CanvasDraw(cv, "draw_str", <<ds.font_size>>, apply_fill_paint(ds),
                        Some(<<Verb(ds.text_align, text), Verb(ds.text_base, font[1])>>))
        ELSE cv

\* the DrawSprites arm: one draw_image_rect per command when the image is cached
RECURSIVE DrawSpriteCmds(_, _, _)
DrawSpriteCmds(cv, image_id, cmds) ==
    IF cmds = <<>>
    THEN cv
    ELSE DrawSpriteCmds(
            CanvasDraw(cv, "draw_image_rect", cmds[1],
                       [NoPaint EXCEPT !.style = "Image", !.alpha = cmds[1][9]],
                       Some(<<Verb("image", image_id)>>)),
            image_id, Tail(cmds))

\* a DrawSprites arm that draws without looking the image up
DrawSpritesUncached(cv, op, res) == DrawSpriteCmds(cv, op.s, op.cmds)

DrawSpritesArm(cv, op, res) ==
    IF op.s \in res.images THEN DrawSpriteCmds(cv, op.s, op.cmds) ELSE cv

\* the start colour of a gradient op: n is <<x, y, x, y, start_color, end_color>>
StartColor(op) == op.n[5]

\* a FillColor arm that assigns the colour and leaves the shader in place
FillColorKeepShader(ds, color) == [ds EXCEPT !.fill_color = color]

\* the FillColor and StrokeColor arms
FillColorArm(ds, color) == [ds EXCEPT !.fill_color = color, !.fill_shader = None]
StrokeColorArm(ds, color) ==
    [ds EXCEPT !.stroke_color = color, !.stroke_shader = None]

\* a fill gradient arm that also replaces the stroke shader
FillGradientBoth(ds, color, shader) ==
    [ds EXCEPT !.fill_color = color, !.fill_shader = shader,
               !.stroke_shader = shader]

\* the FillLinear / FillRadial and StrokeLinear / StrokeRadial arms: the
\* start colour, and whatever the shader constructor returned
FillGradientArm(ds, color, shader) ==
    [ds EXCEPT !.fill_color = color, !.fill_shader = shader]
StrokeGradientArm(ds, color, shader) ==
    [ds EXCEPT !.stroke_color = color, !.stroke_shader = shader]

Same(ds, cv) == [ds |-> ds, cv |-> cv]

\* every arm but DrawScript
ApplyOp(op, ds, cv, res) ==
    CASE op.op = "PushState" -> PushStateArm(ds, cv)
      [] op.op = "PopState" -> PopStateArm(ds, cv)
      [] op.op = "PopPushState" -> PopPushStateArm(ds, cv)
      [] op.op \in {"Translate", "Rotate", "Scale", "Transform"} ->
            Same(ds, CanvasConcat(cv, op.op, op.n))
      [] op.op = "FillColor" -> Same(FillColorArm(ds, op.n[1]), cv)
      [] op.op = "StrokeColor" -> Same(StrokeColorArm(ds, op.n[1]), cv)
      [] op.op = "StrokeWidth" -> Same([ds EXCEPT !.stroke_width = op.n[1]], cv)
      [] op.op = "FillLinear" ->
            Same(FillGradientArm(ds, StartColor(op), LinearShader(op.n)), cv)
      [] op.op = "FillRadial" ->
            Same(FillGradientArm(ds, StartColor(op), RadialShader(op.n)), cv)
      [] op.op = "StrokeLinear" ->
            Same(StrokeGradientArm(ds, StartColor(op), LinearShader(op.n)), cv)
      [] op.op = "StrokeRadial" ->
            Same(StrokeGradientArm(ds, StartColor(op), RadialShader(op.n)), cv)
      [] op.op = "FillImage" ->
            Same(set_fill_image_shader(ds, ImageShader(res.images, op.s)), cv)
      [] op.op = "FillStream" ->
            Same(set_fill_image_shader(ds, ImageShader(res.streams, op.s)), cv)
      [] op.op = "StrokeImage" ->
            Same(set_stroke_image_shader(ds, ImageShader(res.images, op.s)), cv)
      [] op.op = "StrokeStream" ->
            Same(set_stroke_image_shader(ds, ImageShader(res.streams, op.s)), cv)
      [] op.op = "StrokeCap" -> Same([ds EXCEPT !.stroke_cap = op.e], cv)
      [] op.op = "StrokeJoin" -> Same([ds EXCEPT !.stroke_join = op.e], cv)
      [] op.op = "StrokeMiterLimit" ->
            Same([ds EXCEPT !.stroke_miter_limit = op.n[1]], cv)
      [] op.op = "ClipPath" -> ClipPathArm(ds, cv, op.e)
      [] op.op = "Scissor" ->
            Same(ds, CanvasClip(cv, "clip_rect", op.n, "Intersect", None))
      [] op.op = "BeginPath" -> Same([ds EXCEPT !.path = Some(<<>>)], cv)
      [] op.op = "ClosePath" ->
            Same(IF IsSome(ds.path) THEN PathAppend(ds, "close", <<>>) ELSE ds, cv)
      [] op.op = "FillPath" -> FillPathArm(ds, cv)
      [] op.op = "StrokePath" -> StrokePathArm(ds, cv)
      [] op.op = "ArcTo" -> Same(PathArcTo(ds, op.n), cv)
      [] op.op \in {"MoveTo", "LineTo", "BezierTo", "QuadraticTo", "PathTriangle",
                    "PathQuad", "PathRect", "PathRRect", "PathSector", "PathCircle",
                    "PathEllipse", "PathArc"} ->
            Same(PathAppend(ds, op.op, op.n), cv)
      [] op.op = "DrawLine" ->
            Same(ds, DrawLineArm(ds, cv, Front(op.n), Last(op.n)))
      [] op.op \in {"DrawTriangle", "DrawQuad", "DrawCircle", "DrawEllipse", "DrawArc",
                    "DrawSector", "DrawRect", "DrawRRect", "DrawRRectV"} ->
            Same(ds, DrawFlagged(ds, cv, op.op, Front(op.n), Last(op.n)))
      [] op.op = "DrawSprites" -> Same(ds, DrawSpritesArm(cv, op, res))
      [] op.op = "DrawText" -> Same(ds, DrawTextArm(ds, cv, op.s, res))
      [] op.op = "Font" -> Same([ds EXCEPT !.font_id = Some(op.s)], cv)
      [] op.op = "FontSize" -> Same([ds EXCEPT !.font_size = op.n[1]], cv)
      [] op.op = "TextAlign" -> Same([ds EXCEPT !.text_align = op.e], cv)
      [] op.op = "TextBase" -> Same([ds EXCEPT !.text_base = op.e], cv)

----------------------------------------------------------------------------
(* draw_script and Renderer::redraw as a machine that runs one operation    *)
(* per step.  A frame is one activation of draw_script: the script it runs  *)
(* and the index of its next operation.                                     *)

InSeq(x, s) == \E i \in 1..Len(s) : s[i] = x

\* the cycle guard: stack_ids.iter().any(|id| id == script_id)
OnStack(stack_ids, script_id) == InSeq(script_id, stack_ids)

\* a draw_script whose cycle guard also ends the script that made the reference
EnterScriptAbort(e, state, script_id) ==
    IF OnStack(e.stack_ids, script_id)
    THEN [e EXCEPT !.stack_ids = Front(@), !.frames = Front(@)]
    ELSE IF script_id \notin DOMAIN state.scripts THEN e
    ELSE [e EXCEPT !.stack_ids = Append(@, script_id),
                   !.frames = Append(@, [id |-> script_id, pc |-> 1])]

\* a draw_script that pushes the id before it looks the script up
EnterScriptPushFirst(e, state, script_id) ==
    IF OnStack(e.stack_ids, script_id) THEN e
    ELSE IF script_id \notin DOMAIN state.scripts
    THEN [e EXCEPT !.stack_ids = Append(@, script_id)]
    ELSE [e EXCEPT !.stack_ids = Append(@, script_id),
                   !.frames = Append(@, [id |-> script_id, pc |-> 1])]

\* a draw_script without the check of stack_ids
EnterScriptUnguarded(e, state, script_id) ==
    IF script_id \notin DOMAIN state.scripts THEN e
    ELSE [e EXCEPT !.stack_ids = Append(@, script_id),
                   !.frames = Append(@, [id |-> script_id, pc |-> 1])]

\* entry of draw_script: return when the id is executing or not installed,
\* else push the id and start on the script's first operation
EnterScript(e, state, script_id) ==
    IF OnStack(e.stack_ids, script_id) THEN e
    ELSE IF script_id \notin DOMAIN state.scripts THEN e
    ELSE [e EXCEPT !.stack_ids = Append(@, script_id),
                   !.frames = Append(@, [id |-> script_id, pc |-> 1])]

\* a draw_script that hands the caller a default graphics state on return
LeaveScriptFresh(e) ==
    [e EXCEPT !.stack_ids = Front(@), !.frames = Front(@),
              !.ds = DefaultDrawState]

\* a draw_script that returns without stack_ids.pop()
LeaveScriptKeepsId(e) ==
    [e EXCEPT !.frames = Front(@)]

\* exit of draw_script: stack_ids.pop(), back to the caller
LeaveScript(e) ==
    [e EXCEPT !.stack_ids = Front(@), !.frames = Front(@)]

\* one turn of `for op in ops`, or the exit when the script is done
ExecStep(e, state, r) ==
    LET top == Last(e.frames)
        ops == IF top.id \in DOMAIN state.scripts THEN state.scripts[top.id] ELSE <<>>
    IN  IF top.pc > Len(ops)
        THEN LeaveScript(e)
        ELSE LET op == ops[top.pc]
                 adv == [e EXCEPT !.frames[Len(e.frames)].pc = top.pc + 1,
                                  !.trace = Append(@, <<top.id, top.pc>>)]
             IN  IF op.op = "DrawScript"
                 THEN EnterScript(adv, state, op.s)
                 ELSE LET a == ApplyOp(op, e.ds, e.cv, r)
                      IN  [adv EXCEPT !.ds = a.ds, !.cv = a.cv]

\* the executor before the first redraw: the surface's canvas is new
NewExecutor ==
    [frames |-> <<>>, stack_ids |-> <<>>, ds |-> DefaultDrawState,
     cv |-> NewCanvas, trace |-> <<>>]

\* Renderer::redraw up to the call of draw_script: clear, save, (the scale
\* factor is 1.0), then a default DrawState and an empty stack_ids for the root
BeginRedraw(e, state) ==
    LET cleared == Log([e.cv EXCEPT !.log = <<>>],
                       Call("clear", <<state.clear_color>>, NoPaint, None))
        fresh == [frames |-> <<>>, stack_ids |-> <<>>, ds |-> DefaultDrawState,
                  cv |-> CanvasSave(cleared), trace |-> <<>>]
    IN  IF IsSome(state.root_id)
        THEN EnterScript(fresh, state, state.root_id[1])
        ELSE fresh

\* Renderer::redraw after draw_script returned: canvas.restore()
EndRedraw(e) == [e EXCEPT !.cv = CanvasRestore(e.cv)]

----------------------------------------------------------------------------
(* The wire format, as the tests of lib.rs write it: what a script          *)
(* producer sends for an operation.  Used to build the buffers handed to    *)
(* parse_script.                                                            *)

BE16(v) == <<(v \div 256) % 256, v % 256>>
BE32(v) == <<(v \div 16777216) % 256, (v \div 65536) % 256, (v \div 256) % 256, v % 256>>
\* a colour on the wire: red, green, blue, alpha
RgbaOf(c) == <<(c \div 65536) % 256, (c \div 256) % 256, c % 256, (c \div 16777216) % 256>>

RECURSIVE Flatten(_)
Flatten(ss) == IF ss = <<>> THEN <<>> ELSE ss[1] \o Flatten(Tail(ss))

\* the whole number of units, and of quarter units, in an f32 that holds one:
\* (2^23 + fraction) * 2^(exponent field - 150), 0.0 being 0
Scaled(bits, by) ==
    IF bits = 0 THEN 0
    ELSE ((8388608 + (bits % 8388608)) * by) \div 2^(150 - (bits \div 8388608))
Units(bits) == Scaled(bits, 1)
Quarters(bits) == Scaled(bits, 4)

Zeros(k) == [i \in 1..k |-> 0]
EncodeString(s) == BE16(Len(s)) \o s \o Zeros(PadOf(Len(s)))
IndexOf(x, s) == CHOOSE i \in 1..Len(s) : s[i] = x

\* the tag of an operation's opcode
TagOf(op) ==
    IF op.op = "DrawSprites" THEN DRAW_SPRITES
    ELSE (CHOOSE r \in FixedTable \cup StringTable \cup EnumTable \cup WordTable :
              r[2] = op.op)[1]

EncodeFixed(row, op) ==
    LET nf == row[5]
        nc == row[6]
        nw == row[7]
    IN  BE16(row[1])
        \o (IF row[4] THEN BE16(Last(op.n)) ELSE <<0, 0>>)
        \o Flatten([i \in 1..nf |-> BE32(op.n[i])])
        \o Flatten([i \in 1..nc |-> RgbaOf(op.n[nf + i])])
        \o Flatten([i \in 1..nw |-> BE32(op.n[nf + nc + i])])

\* sprite records on the wire: nine f32 each
RecordBytes(cmds) ==
    Flatten([i \in 1..Len(cmds) |-> Flatten([j \in 1..9 |-> BE32(cmds[i][j])])])

EncodeSprites(op) ==
    BE16(DRAW_SPRITES) \o BE16(Len(op.s)) \o BE32(Len(op.cmds))
    \o op.s \o Zeros(PadOf(Len(op.s)))
    \o RecordBytes(op.cmds)

Encode(op) ==
    IF \E r \in FixedTable : r[2] = op.op
    THEN EncodeFixed(CHOOSE r \in FixedTable : r[2] = op.op, op)
    ELSE IF \E r \in StringTable : r[2] = op.op
    THEN BE16((CHOOSE r \in StringTable : r[2] = op.op)[1]) \o EncodeString(op.s)
    ELSE IF \E r \in EnumTable : r[2] = op.op
    THEN LET r == CHOOSE r \in EnumTable : r[2] = op.op
         IN  BE16(r[1]) \o BE16(IndexOf(op.e, r[5]) - 1)
    ELSE IF \E r \in WordTable : r[2] = op.op
    THEN LET r == CHOOSE r \in WordTable : r[2] = op.op
         IN  BE16(r[1]) \o BE16(IF r[4] THEN Quarters(op.n[1]) ELSE Units(op.n[1]))
    ELSE EncodeSprites(op)

EncodeAll(ops) == Flatten([i \in 1..Len(ops) |-> Encode(ops[i])])

----------------------------------------------------------------------------
(* The two threads.  The caller thread is inside one NIF call at a time     *)
(* (with_handle holds the DRIVER mutex for the whole call); the render      *)
(* thread is raster_backend::run.                                           *)

Idle == [pc |-> "idle", call |-> ""]

\* StopSignal::Raster with its render thread running: no event loop to
\* close, no page flip to be refused
RasterBackend == [kind |-> "Raster", loop_closed |-> FALSE, busy |-> 0]

\* InputQueue::new()
NewInputQueue == [events |-> <<>>, target |-> None, notified |-> FALSE]

\* the rest of the DriverHandle of a raster driver that has just started
HandleAtStart ==
    /\ backend = RasterBackend
    /\ input_events = NewInputQueue
    /\ mailbox = <<>>
    /\ drained = <<>>
NoResult == [call |-> "", ok |-> TRUE, err |-> ""]

\* the most successful mutations of one run
MaxGen == 2

\* a caller that does not wait for the render_state mutex
LockIgnored == TRUE

\* handle.render_state.lock() returns once no redraw holds the mutex
LockFree == rs_lock = "none"

\* StopSignal::Wayland with its event loop running
WaylandBackend == [kind |-> "Wayland", loop_closed |-> FALSE, busy |-> 0]

\* signal_redraw's Wayland arm: proxy.send_event(UserEvent::Redraw), which
\* fails once the event loop is gone; the error is mapped to a message
SendRedrawEvent(call) ==
    IF backend.loop_closed
    THEN [call |-> call, ok |-> FALSE,
          err |-> "failed to signal renderer: EventLoopClosed"]
    ELSE [call |-> call, ok |-> TRUE, err |-> ""]

\* update_render_state: take the render_state mutex, run the closure, `?` on
\* its result (an error returns before signal_redraw), release the mutex.
\* The mutex is free when the render thread is not inside a redraw.  With a
\* raster backend the render thread can run between the update and the
\* store of the dirty flag, so signal_redraw is a step of its own; with a
\* Wayland backend nothing that is modelled reads in between, and the send
\* of the event is part of this step.
UpdateRenderState(call, r) ==
    /\ api.pc = "idle"
    /\ gen < MaxGen
    /\ LockFree
    /\ render_state' = r.state
    /\ IF r.ok /\ backend.kind = "Wayland"
       THEN /\ api_result' = SendRedrawEvent(call)
            /\ gen' = gen + 1
            /\ UNCHANGED api
       ELSE IF r.ok
       THEN /\ api' = [pc |-> "signal", call |-> call]
            /\ gen' = gen + 1
            /\ UNCHANGED api_result
       ELSE /\ api_result' = [call |-> call, ok |-> FALSE, err |-> r.err]
            /\ UNCHANGED <<api, gen>>
    /\ UNCHANGED <<rs_lock, dirty, stop_flag>>
    /\ UNCHANGED parseVars
    /\ UNCHANGED handleVars
    /\ UNCHANGED renderVars

\* a signal_redraw that returns Ok without storing the flag
SignalRedrawLost ==
    /\ api.pc = "signal"
    /\ api' = Idle
    /\ api_result' = [call |-> api.call, ok |-> TRUE, err |-> ""]
    /\ UNCHANGED <<render_state, rs_lock, dirty, stop_flag, gen>>
    /\ UNCHANGED parseVars
    /\ UNCHANGED handleVars
    /\ UNCHANGED renderVars

\* signal_redraw for the raster backend: dirty.store(true); the call returns Ok
SignalRedraw ==
    /\ api.pc = "signal"
    /\ dirty' = TRUE
    /\ api' = Idle
    /\ api_result' = [call |-> api.call, ok |-> TRUE, err |-> ""]
    /\ UNCHANGED <<render_state, rs_lock, stop_flag, gen>>
    /\ UNCHANGED parseVars
    /\ UNCHANGED handleVars
    /\ UNCHANGED renderVars

\* stop, up to thread.join(): StopSignal::Raster is set (a second stop finds
\* `running` false and returns at once)
Stop ==
    /\ api.pc = "idle"
    /\ ~stop_flag
    /\ stop_flag' = TRUE
    /\ api' = [pc |-> "join", call |-> "stop"]
    /\ UNCHANGED <<render_state, rs_lock, dirty, api_result, gen>>
    /\ UNCHANGED parseVars
    /\ UNCHANGED handleVars
    /\ UNCHANGED renderVars

\* stop, from thread.join(): it returns once the render thread has left run
StopJoined ==
    /\ api.pc = "join"
    /\ rpc = "exited"
    /\ api' = Idle
    /\ api_result' = [call |-> "stop", ok |-> TRUE, err |-> ""]
    /\ UNCHANGED <<render_state, rs_lock, dirty, stop_flag, gen>>
    /\ UNCHANGED parseVars
    /\ UNCHANGED handleVars
    /\ UNCHANGED renderVars

\* the loop of raster_backend::run: `if stop.load() { break }`
RenderCheckStop ==
    /\ rpc = "check_stop"
    /\ rpc' = IF stop_flag THEN "exited" ELSE "swap"
    /\ UNCHANGED <<ex, caches, frame_gen, frame_base>>
    /\ UNCHANGED storeVars
    /\ UNCHANGED parseVars
    /\ UNCHANGED handleVars

\* `if dirty.swap(false)`: a set flag is cleared and a redraw follows, a
\* clear flag sends the thread to sleep and round the loop
RenderSwapDirty ==
    /\ rpc = "swap"
    /\ dirty' = FALSE
    /\ rpc' = IF dirty THEN "lock" ELSE "check_stop"
    /\ UNCHANGED <<ex, caches, frame_gen, frame_base>>
    /\ UNCHANGED <<render_state, rs_lock, stop_flag, api, api_result, gen>>
    /\ UNCHANGED parseVars
    /\ UNCHANGED handleVars

\* render_state.lock() and Renderer::redraw up to the root script's first op
RedrawBegin ==
    /\ rpc = "lock"
    /\ rs_lock = "none"
    /\ rs_lock' = "render"
    /\ rpc' = "drawing"
    /\ ex' = BeginRedraw(ex, render_state)
    /\ frame_base' = [state |-> render_state, gen |-> gen]
    /\ UNCHANGED <<caches, frame_gen>>
    /\ UNCHANGED <<render_state, dirty, stop_flag, api, api_result, gen>>
    /\ UNCHANGED parseVars
    /\ UNCHANGED handleVars

\* one operation of the script being drawn, or the return from a script
RedrawStep ==
    /\ rpc = "drawing"
    /\ ex.frames # <<>>
    /\ ex' = ExecStep(ex, render_state, caches)
    /\ UNCHANGED <<rpc, caches, frame_gen, frame_base>>
    /\ UNCHANGED storeVars
    /\ UNCHANGED parseVars
    /\ UNCHANGED handleVars

\* the end of Renderer::redraw and the guard dropped; the raster loop then
\* stores the frame, the direct-display loop goes on to commit it
RedrawEnd ==
    /\ rpc = "drawing"
    /\ ex.frames = <<>>
    /\ ex' = EndRedraw(ex)
    /\ rs_lock' = "none"
    /\ frame_gen' = IF backend.kind = "Drm" THEN frame_gen ELSE frame_base.gen
    /\ rpc' = IF backend.kind = "Drm" THEN "commit" ELSE "check_stop"
    /\ UNCHANGED <<caches, frame_base>>
    /\ UNCHANGED <<render_state, dirty, stop_flag, api, api_result, gen>>
    /\ UNCHANGED parseVars
    /\ UNCHANGED handleVars

----------------------------------------------------------------------------
(* Sample operations and scripts                                            *)

RED == from_argb(255, 255, 0, 0)

OpPushState == VoidOp("PushState")
OpPopState == VoidOp("PopState")
OpPopPushState == VoidOp("PopPushState")
OpFillColor == NumOp("FillColor", <<RED>>)
OpStrokeWidth == NumOp("StrokeWidth", <<F_TWO>>)
OpTranslate == NumOp("Translate", <<F_ONE, F_TWO>>)
OpBeginPath == VoidOp("BeginPath")
OpMoveTo == NumOp("MoveTo", <<F_ONE, F_TWO>>)
OpFillPath == VoidOp("FillPath")
OpStrokePath == VoidOp("StrokePath")
OpClipPath == EnumOp("ClipPath", "Intersect")
\* a rectangle with the fill flag alone: one call on the canvas
OpDrawRect == NumOp("DrawRect", <<F_ONE, F_TWO, 1>>)
OpDrawScript(id) == StrOp("DrawScript", id)

\* the longest root script of an executor run
MaxScriptLen == 3

\* every sequence of at most n letters of an alphabet
SeqsUpTo(alphabet, n) == UNION {[1..k -> alphabet] : k \in 0..n}

\* root scripts that save and restore the graphics state
StateScripts ==
    SeqsUpTo({OpPushState, OpPopState, OpPopPushState, OpFillColor, OpTranslate},
             MaxScriptLen)

\* root scripts that build, fill, stroke and clip with the current path
PathScripts ==
    SeqsUpTo({OpBeginPath, OpMoveTo, OpFillPath, OpStrokePath, OpClipPath},
             MaxScriptLen)

\* root scripts that reference other scripts: "b", themselves, and "c",
\* which is never installed
RefScripts ==
    SeqsUpTo({OpDrawScript(IdB), OpDrawScript(ROOT_ID), OpDrawScript(IdC), OpDrawRect},
             MaxScriptLen)

\* what "b" holds next to a referencing root
SubScripts ==
    { <<OpStrokeWidth, OpDrawScript(ROOT_ID), OpDrawRect>>,
      <<OpDrawScript(ROOT_ID)>>,
      <<OpDrawScript(IdB), OpDrawRect, OpDrawScript(IdC)>> }

\* a store holding the root script alone, or the root script and "b"
StoreOf(root) ==
    [clear_color |-> WHITE, scripts |-> MapInsert(<<>>, ROOT_ID, root),
     root_id |-> Some(ROOT_ID)]
StoreWith(root, b) ==
    [StoreOf(root) EXCEPT !.scripts = MapInsert(@, IdB, b)]

ExecStores ==
    {StoreOf(r) : r \in StateScripts \cup PathScripts}
    \cup {StoreWith(r, b) : r \in RefScripts, b \in SubScripts}

\* the caches of a driver that was given image "a" and has a system font
SomeCaches ==
    [images |-> {IdA}, streams |-> {}, fonts |-> {}, default_font |-> TRUE]

NoBuild == [ops |-> <<>>, defect |-> ""]
Pending == [ok |-> FALSE, err |-> "pending"]

\* the render thread about to make its first redraw of an installed store
InitExec ==
    /\ render_state \in ExecStores
    /\ script = <<>> /\ parsed = Pending /\ built = NoBuild
    /\ rs_lock = "none" /\ dirty = FALSE /\ stop_flag = FALSE
    /\ api = Idle /\ api_result = NoResult
    /\ rpc = "lock" /\ ex = NewExecutor /\ caches = SomeCaches
    /\ gen = 0 /\ frame_gen = 0
    /\ frame_base = [state |-> DefaultRenderState, gen |-> 0]
    /\ HandleAtStart

NextExec == RedrawBegin \/ RedrawStep \/ RedrawEnd

SpecExec == InitExec /\ [][NextExec]_vars

\* the run always reaches the end of the redraw
SpecExecFair == SpecExec /\ WF_vars(NextExec)

----------------------------------------------------------------------------
(* What a state says about the redraw in progress                           *)

Finished == rpc = "check_stop"

\* the operation the next RedrawStep executes, when there is one
HasNextOp ==
    /\ rpc = "drawing"
    /\ ex.frames # <<>>
    /\ Last(ex.frames).id \in DOMAIN render_state.scripts
    /\ Last(ex.frames).pc <= Len(render_state.scripts[Last(ex.frames).id])
NextOp == render_state.scripts[Last(ex.frames).id][Last(ex.frames).pc]

\* this step executes an operation of that name
Executes(name) ==
    /\ HasNextOp
    /\ NextOp.op = name
    /\ Len(ex'.trace) = Len(ex.trace) + 1

\* the operations executed so far in this redraw, in order
TraceOps ==
    [i \in 1..Len(ex.trace) |->
        IF ex.trace[i][1] \in DOMAIN render_state.scripts
        THEN render_state.scripts[ex.trace[i][1]][ex.trace[i][2]].op
        ELSE ""]

RootOps == render_state.scripts[ROOT_ID]
NamesOf(ops) == [i \in 1..Len(ops) |-> ops[i].op]
Count(s, P(_)) == Cardinality({i \in 1..Len(s) : P(s[i])})
Positions(id, from, to) == [i \in 1..(to - from + 1) |-> <<id, from + i - 1>>]

----------------------------------------------------------------------------
(* C6: scripts that reference each other                                    *)

IsRef(op, id) == op.op = "DrawScript" /\ op.s = id

\* the root references "b" at exactly one place and "b" references the root
CycleAB ==
    /\ DOMAIN render_state.scripts = {ROOT_ID, IdB}
    /\ render_state.root_id = Some(ROOT_ID)
    /\ Count(RootOps, LAMBDA op : IsRef(op, IdB)) = 1
    /\ Count(render_state.scripts[IdB], LAMBDA op : IsRef(op, ROOT_ID)) >= 1

\* the root's operations up to its reference of "b", all of "b", the rest of
\* the root: every operation once, where it stands inline
InlineTrace ==
    LET at == CHOOSE i \in 1..Len(RootOps) : IsRef(RootOps[i], IdB)
    IN  Positions(ROOT_ID, 1, at)
        \o Positions(IdB, 1, Len(render_state.scripts[IdB]))
        \o Positions(ROOT_ID, at + 1, Len(RootOps))

IsDrawRect(op) == op.op = "DrawRect"

CycleDrawnOnce ==
    CycleAB =>
        /\ ex.trace = InlineTrace
        /\ ex.stack_ids = <<>>
        /\ Len(DrawCalls(ex.cv.log))
             = Count(RootOps, IsDrawRect) + Count(render_state.scripts[IdB], IsDrawRect)

\* C6: a redraw whose root script A references B once, with B referencing A
\* back, comes to its end, and at the end has executed every operation of A
\* and of B exactly once in inline order (B's operations where A references
\* B), the reference back to A having started nothing.
C6_CycleTerminates == <>[](Finished /\ CycleDrawnOnce)

C6_Witness ==
    /\ Finished
    /\ CycleAB
    /\ render_state.scripts[IdB] = <<OpStrokeWidth, OpDrawScript(ROOT_ID), OpDrawRect>>
    /\ Len(RootOps) = MaxScriptLen
    /\ ex.ds.stroke_width = F_TWO
    /\ Len(DrawCalls(ex.cv.log)) >= 2

----------------------------------------------------------------------------
(* C7: FillPath, StrokePath and the current path                            *)

PathNames == {"BeginPath", "MoveTo", "FillPath", "StrokePath", "ClipPath"}

\* a path is current before operation i: one was begun or moved to, and no
\* StrokePath came after that
PathLive(ops, i) ==
    \E j \in 1..(i - 1) :
        /\ ops[j].op \in {"BeginPath", "MoveTo"}
        /\ \A k \in (j + 1)..(i - 1) : ops[k].op # "StrokePath"

PathFrame ==
    (Finished /\ DOMAIN render_state.scripts = {ROOT_ID}
              /\ \A i \in 1..Len(RootOps) : RootOps[i].op \in PathNames)
    => /\ Len(DrawCalls(ex.cv.log))
            = Cardinality({i \in 1..Len(RootOps) :
                             /\ RootOps[i].op \in {"FillPath", "StrokePath"}
                             /\ PathLive(RootOps, i)})
       /\ Count(ex.cv.log, LAMBDA c : c.call = "clip_path")
            = Cardinality({i \in 1..Len(RootOps) :
                             RootOps[i].op = "ClipPath" /\ PathLive(RootOps, i)})

DrewPath(style) ==
    /\ Len(ex'.cv.log) = Len(ex.cv.log) + 1
    /\ Last(ex'.cv.log).call = "draw_path"
    /\ Last(ex'.cv.log).paint.style = style
    /\ Last(ex'.cv.log).path = ex.ds.path

PathStep ==
    /\ Executes("FillPath") =>
          /\ ex'.ds = ex.ds
          /\ IF IsSome(ex.ds.path) THEN DrewPath("Fill") ELSE ex'.cv = ex.cv
    /\ Executes("StrokePath") =>
          /\ ex'.ds = [ex.ds EXCEPT !.path = None]
          /\ IF IsSome(ex.ds.path) THEN DrewPath("Stroke") ELSE ex'.cv = ex.cv
    /\ (Executes("ClipPath") /\ ~IsSome(ex.ds.path)) => (ex'.cv = ex.cv /\ ex'.ds = ex.ds)

\* C7: FillPath draws the current path and leaves the graphics state, the
\* path included, as it was; StrokePath draws the current path and leaves no
\* current path; with no current path FillPath, StrokePath and ClipPath leave
\* the canvas alone.  Over a whole script of path operations, the draws and
\* clips are those of the FillPath, StrokePath and ClipPath operations that
\* have a path begun or moved to since the last StrokePath.
C7_FillKeepsStrokeClears == [](PathFrame) /\ [][PathStep]_vars

C7_Witness ==
    /\ Finished
    /\ NamesOf(RootOps) = <<"MoveTo", "FillPath", "StrokePath">>
    /\ Len(DrawCalls(ex.cv.log)) = 2
    /\ DrawCalls(ex.cv.log)[1].path = DrawCalls(ex.cv.log)[2].path
    /\ ex.ds.path = None

----------------------------------------------------------------------------
(* C8, C9, C10: the snapshot stack                                          *)

EmptyPopStep ==
    (Executes("PopState") /\ ex.ds.stack = <<>>) =>
        /\ ex'.ds = ex.ds
        /\ ex'.cv = ex.cv

\* C8: a PopState executed with an empty snapshot stack leaves every field
\* of the graphics state, the empty stack and the canvas (matrix, clip, save
\* stack, calls made) exactly as they were.
C8_PopOnEmptyIsNoOp == [][EmptyPopStep]_vars

\* a PopState ran with nothing pushed before it, on a state and a canvas
\* matrix that are not the default ones
C8_Witness ==
    /\ TraceOps = <<"FillColor", "Translate", "PopState">>
    /\ ex.ds.fill_color = RED
    /\ ex.ds.stack = <<>>
    /\ ex.cv.m # <<>>

RestoreThenSave ==
    /\ Len(ex'.cv.log) = Len(ex.cv.log) + 2
    /\ SubSeq(ex'.cv.log, 1, Len(ex.cv.log)) = ex.cv.log
    /\ ex'.cv.log[Len(ex.cv.log) + 1].call = "restore"
    /\ ex'.cv.log[Len(ex.cv.log) + 2].call = "save"
    /\ Len(ex'.cv.saved) = Len(ex.cv.saved)

PopPushStep ==
    Executes("PopPushState") =>
        IF ex.ds.stack # <<>>
        THEN /\ \A f \in SnapshotFields : ex'.ds[f] = Last(ex.ds.stack)[f]
             /\ ex'.ds.stack = ex.ds.stack
             /\ RestoreThenSave
        ELSE /\ ex'.ds = ex.ds
             /\ ex'.cv = ex.cv

\* C9: a PopPushState executed with a non-empty snapshot stack leaves every
\* field of the graphics state equal to the top snapshot, the stack itself
\* unchanged, and has made exactly two canvas calls, a restore then a save;
\* executed with an empty stack it leaves graphics state and canvas alone.
C9_PopPushPeeks == [][PopPushStep]_vars

\* a PopPushState brought the fill colour back from RED to the pushed BLACK
C9_Witness ==
    /\ TraceOps = <<"PushState", "FillColor", "PopPushState">>
    /\ ex.ds.fill_color = BLACK
    /\ Len(ex.ds.stack) = 1
    /\ Len(ex.cv.saved) = 2

\* the script is n PushState followed by more than n PopState
PushesThenMorePops(ops) ==
    \E n \in 0..Len(ops) :
        /\ Len(ops) - n > n
        /\ \A i \in 1..Len(ops) :
              ops[i] = IF i <= n THEN OpPushState ELSE OpPopState

\* a redraw of such a script, the root alone in the store, has finished
PushPopDone ==
    /\ Finished
    /\ DOMAIN render_state.scripts = {ROOT_ID}
    /\ PushesThenMorePops(RootOps)

\* C10: a redraw of a script that is N PushState then M > N PopState
\* executes all N + M operations, and ends with an empty snapshot stack and
\* every field of the graphics state at its default.
C10_MorePopsThanPushes ==
    PushPopDone =>
        /\ Len(ex.trace) = Len(RootOps)
        /\ ex.ds.stack = <<>>
        /\ ex.ds = DefaultDrawState

C10_Witness ==
    /\ Finished
    /\ NamesOf(RootOps) = <<"PushState", "PopState", "PopState">>
    /\ Len(ex.trace) = 3
    /\ ex.ds.stack = <<>>

----------------------------------------------------------------------------
(* parse_script on buffers built from sample operations                     *)

OpStrokeCap == EnumOp("StrokeCap", "Round")
OpTextBase == EnumOp("TextBase", "Bottom")
\* "text": four bytes, no padding
OpDrawText == StrOp("DrawText", <<116, 101, 120, 116>>)
OpSprites ==
    MkOp("DrawSprites", <<>>, IdA, "",
         << <<0, 0, F_ONE, F_ONE, F_TWO, F_TWO, F_ONE, F_ONE, F_ONE>> >>)
\* a radial fill whose colour fields have the top bit set
OpFillRadial == NumOp("FillRadial", <<F_ONE, F_TWO, 0, F_TWO, RED, WHITE>>)

\* the operations a buffer is probed with: every kind of arm, identifiers
\* padded by 3, 2 and 0 bytes
SubjectOps ==
    { OpPushState, OpFillColor, OpFillRadial, OpDrawRect, OpStrokeWidth,
      OpStrokeCap, OpTextBase, OpDrawScript(IdA), OpDrawScript(ROOT_ID),
      OpDrawText, OpSprites }

\* the operations that stand in front of the probed one
PrefixOps == {OpFillColor, OpDrawScript(IdB), OpStrokeCap}

\* the most operations in front of the probed one
MaxOps == 2

\* tags no arm of parse_script matches
UnknownTags == ((0..255) \cup {257, 8192, 65535}) \ SupportedTags

EnumOps == {op \in SubjectOps : \E r \in EnumTable : r[2] = op.op}
EnumRow(op) == CHOOSE r \in EnumTable : r[2] = op.op
\* wire values that are no enumerant of the operation
BadEnumerants(op) == {Len(EnumRow(op)[5]), 255, 65535}

\* how a buffer is put together: the prefix, the probed operation, what is
\* wrong with it (defect and its parameter k), and what follows it
Build(prefix, subject, defect, k, suffix) ==
    [ops |-> prefix, subject |-> subject, defect |-> defect, k |-> k, suffix |-> suffix]

Suffixes == {<<>>, <<OpPushState>>}

Builds ==
    LET prefixes == SeqsUpTo(PrefixOps, MaxOps)
    IN  {Build(p, s, "none", 0, x) :
             p \in prefixes, s \in SubjectOps, x \in Suffixes}
        \cup {Build(p, OpFillColor, "unknown", tag, <<OpPushState>>) :
             p \in prefixes, tag \in UnknownTags}
        \cup UNION {{Build(p, s, "enum", v, x) :
             p \in prefixes, v \in BadEnumerants(s), x \in Suffixes} : s \in EnumOps}
        \cup UNION {{Build(p, s, "truncated", k, <<>>) :
             p \in prefixes, k \in 2..(Len(Encode(s)) - 1)} : s \in SubjectOps}
        \cup {Build(p, s, "stray", 1, <<>>) : p \in prefixes, s \in SubjectOps}

\* the bytes a producer puts behind a string of `len` bytes: up to the next
\* multiple of 4
\* batches that are short of records, by kind: the declared count for n
\* complete records, and the bytes of an incomplete record behind them
ShortKinds == 1..4
ShortCount(n, kind) == <<n + 1, n + 1, n + 2, F_ONE - 2147483647 - 1>>[kind]
ShortExtra(kind) == <<0, 35, 36, 0>>[kind]

\* channel bytes, and the four of them a number below 5^4 picks: red, green,
\* blue, alpha
ChannelSamples == <<0, 1, \h7F, \h80, \hFF>>
Channel(k, i) == ChannelSamples[((k \div 5^(i - 1)) % 5) + 1]
RgbaBytes(k) == <<Channel(k, 1), Channel(k, 2), Channel(k, 3), Channel(k, 4)>>
\* the same bytes back to front
AbgrBytes(k) == <<Channel(k, 4), Channel(k, 3), Channel(k, 2), Channel(k, 1)>>
\* the opcodes with colour fields: <<variant, f32 fields in front, colours>>
ColorFields ==
    { <<r[2], r[5], r[6]>> : r \in {row \in FixedTable : row[6] > 0} }
ColorRow(name) == CHOOSE c \in ColorFields : c[1] = name

FillTo4(len, byte) == [i \in 1..(((len + 3) \div 4) * 4 - len) |-> byte]

\* the bytes of a build
BytesOf(b) ==
    LET whole == Encode(b.subject)
        probe == CASE b.defect = "none" -> whole
                   [] b.defect = "id first" ->
                          BE16(DRAW_SPRITES) \o EncodeString(b.subject.s)
                          \o BE32(Len(b.subject.cmds)) \o RecordBytes(b.subject.cmds)
                   [] b.defect = "short" ->
                          BE16(DRAW_SPRITES) \o BE16(Len(b.subject.s))
                          \o BE32(ShortCount(Len(b.subject.cmds), b.k))
                          \o Drop(EncodeString(b.subject.s), 2)
                          \o RecordBytes(b.subject.cmds) \o Zeros(ShortExtra(b.k))
                   [] b.defect = "padded" ->
                          BE16(TagOf(b.subject)) \o BE16(Len(b.subject.s)) \o b.subject.s
                          \o FillTo4(Len(b.subject.s), b.k)
                   [] b.defect = "unknown" -> BE16(b.k) \o Drop(whole, 2)
                   [] b.defect = "enum" -> Take(whole, 2) \o BE16(b.k)
                   [] b.defect = "colour" ->
                          BE16(TagOf(b.subject)) \o <<0, 0>>
                          \o Zeros(4 * ColorRow(b.subject.op)[2]) \o RgbaBytes(b.k)
                          \o (IF ColorRow(b.subject.op)[3] = 2 THEN AbgrBytes(b.k) ELSE <<>>)
                   [] b.defect = "word" -> BE16(TagOf(b.subject)) \o BE16(b.k)
                   [] OTHER -> Take(whole, b.k)
    IN  EncodeAll(b.ops) \o probe \o EncodeAll(b.suffix)

InitParse ==
    /\ built \in Builds
    /\ script = BytesOf(built)
    /\ parsed = Pending
    /\ render_state = DefaultRenderState
    /\ rs_lock = "none" /\ dirty = FALSE /\ stop_flag = FALSE
    /\ api = Idle /\ api_result = NoResult
    /\ rpc = "lock" /\ ex = NewExecutor /\ caches = SomeCaches
    /\ gen = 0 /\ frame_gen = 0
    /\ frame_base = [state |-> DefaultRenderState, gen |-> 0]
    /\ HandleAtStart

\* the call of parse_script on the buffer
Parse ==
    /\ parsed = Pending
    /\ parsed' = parse_script(script)
    /\ UNCHANGED <<script, built>>
    /\ UNCHANGED handleVars
    /\ UNCHANGED storeVars
    /\ UNCHANGED renderVars

NextParse == Parse

SpecParse == InitParse /\ [][NextParse]_vars

Parsed == parsed # Pending

----------------------------------------------------------------------------
(* The driver: a caller thread making API calls, the render thread drawing  *)

Ids == {ROOT_ID, IdA}

BufFill == EncodeAll(<<OpFillColor>>)
BufRef == EncodeAll(<<OpDrawScript(IdA), OpDrawRect>>)
\* a well-formed operation, then a DrawRect two bytes short
BufTruncated == EncodeAll(<<OpFillColor>>) \o Take(Encode(OpDrawRect), 10)
\* a well-formed operation, then a tag no arm matches
BufUnknown == EncodeAll(<<OpPushState>>) \o <<18, 52>>

\* the buffers of submit_script and submit_script_with_id calls
Buffers == {BufFill, BufRef, BufTruncated}

\* submit_scripts calls: no pair; one; two ids; the same id twice; a buffer
\* that fails first, last, and between two that decode
Batches ==
    { <<>>,
      << <<IdA, BufFill>> >>,
      << <<ROOT_ID, BufRef>>, <<IdA, BufFill>> >>,
      << <<IdA, BufFill>>, <<IdA, BufRef>> >>,
      << <<ROOT_ID, BufFill>>, <<ROOT_ID, BufRef>> >>,
      << <<IdA, BufUnknown>>, <<ROOT_ID, BufFill>> >>,
      << <<ROOT_ID, BufRef>>, <<IdA, BufTruncated>> >>,
      << <<IdA, BufRef>>, <<ROOT_ID, BufTruncated>>, <<ROOT_ID, BufFill>> >> }

\* (r, g, b, a) arguments of set_clear_color
ClearColors == {<<0, 0, 0, 255>>}

SubmitScript(bin) ==
    UpdateRenderState("submit_script", SubmitClosure(render_state, ROOT_ID, bin))
SubmitScriptWithId(id, bin) ==
    UpdateRenderState("submit_script_with_id", SubmitClosure(render_state, id, bin))
SubmitScripts(scripts) ==
    UpdateRenderState("submit_scripts", SubmitManyClosure(render_state, scripts))
DelScript(id) ==
    UpdateRenderState("del_script", DelClosure(render_state, id))
ResetScene ==
    UpdateRenderState("reset_scene", ResetClosure(render_state))
SetClearColor(color) ==
    UpdateRenderState("set_clear_color", ClearColorClosure(render_state, color))

\* start: the render state is new, the render thread makes its first redraw
Init ==
    /\ render_state = DefaultRenderState
    /\ script = <<>> /\ parsed = Pending /\ built = NoBuild
    /\ rs_lock = "none" /\ dirty = FALSE /\ stop_flag = FALSE
    /\ api = Idle /\ api_result = NoResult
    /\ rpc = "lock" /\ ex = NewExecutor /\ caches = SomeCaches
    /\ gen = 0 /\ frame_gen = 0
    /\ frame_base = [state |-> DefaultRenderState, gen |-> 0]
    /\ HandleAtStart

\* the calls of a caller that draws its arguments from the given sets
ApiCalls(bins, ids, batches) ==
    \/ \E bin \in bins : SubmitScript(bin)
    \/ \E id \in ids, bin \in bins : SubmitScriptWithId(id, bin)
    \/ \E scripts \in batches : SubmitScripts(scripts)
    \/ \E id \in ids : DelScript(id)
    \/ ResetScene
    \/ \E color \in ClearColors : SetClearColor(color)
    \/ SignalRedraw

ApiNext == ApiCalls(Buffers, Ids, Batches)

\* the calls alone: every behaviour of the caller thread while the render
\* thread, which never writes the render state, has yet to take its first step
SpecApi == Init /\ [][ApiNext]_vars

\* the caller next to a running render thread: the root script references
\* "a", which is installed, replaced and deleted on its own
SyncBuffers == {BufRef, BufTruncated}
SyncBatches == { << <<ROOT_ID, BufRef>>, <<IdA, BufFill>> >> }
ApiSyncNext == ApiCalls(SyncBuffers, {IdA}, SyncBatches)

RenderNext ==
    \/ RenderCheckStop
    \/ RenderSwapDirty
    \/ RedrawBegin
    \/ RedrawStep
    \/ RedrawEnd

Next == ApiSyncNext \/ Stop \/ StopJoined \/ RenderNext

Spec == Init /\ [][Next]_vars

\* the render thread keeps running, and a call that updated the state goes on
\* to signal_redraw
SpecFair == Spec /\ WF_vars(RenderNext) /\ WF_vars(SignalRedraw)

----------------------------------------------------------------------------
(* C2, C3: a submission that fails to decode                                *)

Decodes(bin) == parse_script(bin).ok

\* the caller thread took this step and returned an error
CallReturned == api.pc = "idle" /\ api'.pc = "idle" /\ ~api_result'.ok
\* the caller thread took this step and goes on to signal_redraw
CallUpdated == api.pc = "idle" /\ api'.pc = "signal"

\* the step is a submit_script or submit_script_with_id call whose buffer
\* does not decode
FailedSubmit(id, bin) ==
    /\ CallReturned
    /\ ~Decodes(bin)
    /\ \/ SubmitScriptWithId(id, bin)
       \/ id = ROOT_ID /\ SubmitScript(bin)

SubmitErrorStep ==
    \A id \in Ids, bin \in Buffers :
        FailedSubmit(id, bin) =>
            /\ render_state' = render_state
            /\ ~api_result'.ok
            /\ api_result'.err = parse_script(bin).err
            /\ api'.pc = "idle"
            /\ dirty' = dirty

\* C2: a submit_script or submit_script_with_id call whose buffer does not
\* decode returns the decoder's error, sends no redraw signal, and leaves
\* the script map (the script under the submitted id included), the root
\* identifier and the clear color as they were.
C2_FailedSubmitChangesNothing == [][SubmitErrorStep]_vars

\* a failed submit_script_with_id, with a script installed under the root id
\* and under "a", a root designation and a clear color that is not the default
C2_Witness ==
    /\ api_result = [call |-> "submit_script_with_id", ok |-> FALSE,
                     err |-> "draw_rect opcode truncated"]
    /\ DOMAIN render_state.scripts = Ids
    /\ render_state.scripts[IdA] = <<OpFillColor>>
    /\ render_state.scripts[ROOT_ID] = <<OpDrawScript(IdA), OpDrawRect>>
    /\ render_state.root_id = Some(ROOT_ID)
    /\ render_state.clear_color = BLACK

IdsOf(scripts) == {scripts[i][1] : i \in 1..Len(scripts)}
\* the last pair of the batch for an id
LastFor(scripts, id) ==
    scripts[CHOOSE i \in 1..Len(scripts) :
                /\ scripts[i][1] = id
                /\ \A j \in (i + 1)..Len(scripts) : scripts[j][1] # id]

BatchStep ==
    \A scripts \in Batches :
        ((CallReturned \/ CallUpdated) /\ SubmitScripts(scripts)) =>
            IF \E i \in 1..Len(scripts) : ~Decodes(scripts[i][2])
            THEN /\ render_state' = render_state
                 /\ ~api_result'.ok
                 /\ api'.pc = "idle"
            ELSE /\ api'.pc = "signal"
                 /\ DOMAIN render_state'.scripts
                        = DOMAIN render_state.scripts \cup IdsOf(scripts)
                 /\ \A id \in DOMAIN render_state'.scripts :
                        render_state'.scripts[id]
                          = IF id \in IdsOf(scripts)
                            THEN parse_script(LastFor(scripts, id)[2]).ops
                            ELSE render_state.scripts[id]
                 /\ render_state'.root_id
                        = IF ROOT_ID \in IdsOf(scripts) THEN Some(ROOT_ID)
                          ELSE render_state.root_id
                 /\ render_state'.clear_color = render_state.clear_color

\* C3: a submit_scripts call with a buffer that does not decode returns an
\* error and leaves the whole render state as it was, whatever decoded
\* before the failing buffer; a call whose buffers all decode leaves every id
\* of the batch holding the operations of its last pair in the batch, roots
\* the scene when the root id is among them, and leaves every other script
\* and the clear color alone.
C3_BatchAllOrNothing == [][BatchStep]_vars

\* submit_scripts failed on a truncated DrawRect, which in every batch that
\* has one stands behind a buffer that decodes, and the store holds no script
C3_Witness ==
    /\ api_result.call = "submit_scripts"
    /\ ~api_result.ok
    /\ api_result.err = "draw_rect opcode truncated"
    /\ render_state.scripts = <<>>
    /\ render_state.clear_color = BLACK

----------------------------------------------------------------------------
(* C4, C5: mutations and redraws                                            *)

\* C4: once the render state has been mutated g times, the render thread
\* eventually finishes a redraw that began with at least g mutations in the
\* state it read, or has been asked to stop.
C4_RedrawFollowsMutation ==
    \A g \in 1..MaxGen : (gen >= g) ~> (frame_gen >= g \/ stop_flag)

\* a redraw finished that read the state of the last mutation allowed,
\* with the render thread never asked to stop
C4_Witness ==
    /\ gen = MaxGen
    /\ frame_gen = MaxGen
    /\ ~stop_flag
    /\ Finished
    /\ ~dirty

\* C5: while a redraw is between its first and its last operation the render
\* thread holds the render_state mutex, and the render state and the number
\* of mutations are those the redraw started from; the script being executed
\* is one of that state.
C5_RedrawReadsOneState ==
    /\ (rpc = "drawing") = (rs_lock = "render")
    /\ rpc = "drawing" =>
        /\ rs_lock = "render"
        /\ render_state = frame_base.state
        /\ gen = frame_base.gen
        /\ \A i \in 1..Len(ex.frames) : ex.frames[i].id \in DOMAIN frame_base.state.scripts

\* a redraw is inside the script "a", reached from the root script, while a
\* caller that updated the state before the redraw began has yet to signal
C5_Witness ==
    /\ rpc = "drawing"
    /\ ex.stack_ids = <<ROOT_ID, IdA>>
    /\ api.pc = "signal"
    /\ gen = MaxGen

----------------------------------------------------------------------------
(* Redraws of scripts that assign paint, select fonts, draw shapes, text    *)
(* and sprites, and reference sub-scripts                                   *)

BLUE == from_argb(255, 0, 0, 255)
\* the bit pattern of a quiet NaN
F_NAN == \h7FC00000

OpFillLinear == NumOp("FillLinear", <<0, 0, F_ONE, F_TWO, RED, WHITE>>)
OpStrokeLinear == NumOp("StrokeLinear", <<0, 0, F_TWO, F_ONE, BLUE, WHITE>>)
OpStrokeRadial == NumOp("StrokeRadial", <<F_ONE, F_ONE, F_ONE, F_TWO, BLUE, RED>>)
OpStrokeColor == NumOp("StrokeColor", <<BLUE>>)
OpStrokeJoin == EnumOp("StrokeJoin", "Bevel")
\* a miter limit of 8.0
OpMiterLimit == NumOp("StrokeMiterLimit", <<\h41000000>>)
OpLineTo == NumOp("LineTo", <<F_TWO, F_TWO>>)
OpFont(id) == StrOp("Font", id)
\* a font size of 10.0
OpFontSize == NumOp("FontSize", <<\h41200000>>)
OpTextAlign == EnumOp("TextAlign", "Center")

\* the body of `for op in ops` for a script that references no other script
RECURSIVE RunOps(_, _, _, _)
RunOps(ops, ds, cv, res) ==
    IF ops = <<>>
    THEN Same(ds, cv)
    ELSE LET a == ApplyOp(ops[1], ds, cv, res)
         IN  RunOps(Tail(ops), a.ds, a.cv, res)

StackNames == {"PushState", "PopState", "PopPushState"}

\* a setup of the render thread: the store it draws and the caches it reads
Setup(store, res) == [store |-> store, caches |-> res]

\* the caches of a driver given image "a", stream "b" and font "a"
FullCaches ==
    [images |-> {IdA}, streams |-> {IdB}, fonts |-> {IdA}, default_font |-> TRUE]

\* a script that moves every field of the graphics state off its default
SetEveryField ==
    << OpFillLinear, OpStrokeLinear, OpStrokeWidth, OpStrokeCap, OpStrokeJoin,
       OpMiterLimit, OpMoveTo, OpFont(IdA), OpFontSize, OpTextAlign, OpTextBase >>

\* operations that each change fields of the graphics state, none of them a
\* stack operation: together they change every field, from the default and
\* from what SetEveryField leaves
FieldOps ==
    { OpFillColor, OpFillRadial, OpStrokeColor, OpStrokeRadial,
      NumOp("StrokeWidth", <<\h40400000>>), EnumOp("StrokeCap", "Square"),
      EnumOp("StrokeJoin", "Round"), NumOp("StrokeMiterLimit", <<F_TWO>>),
      OpLineTo, OpStrokePath, OpFont(IdB), NumOp("FontSize", <<\h41700000>>),
      EnumOp("TextAlign", "Right"), EnumOp("TextBase", "Top") }

\* the most operations between a PushState and its PopState
MaxChanges == 2

\* PushState, some field changes, PopState: from the default state, and one
\* change from the state SetEveryField leaves
SnapshotScripts ==
    { <<OpPushState>> \o mid \o <<OpPopState>> :
        mid \in SeqsUpTo(FieldOps, MaxChanges) \ {<<>>} }
    \cup { SetEveryField \o <<OpPushState, m, OpPopState>> : m \in FieldOps }

\* a linear fill whose end point is not a number: no shader is built
OpFillLinearNaN == NumOp("FillLinear", <<0, 0, F_NAN, F_ONE, BLUE, WHITE>>)
OpFillImage(id) == StrOp("FillImage", id)
OpFillStream(id) == StrOp("FillStream", id)
OpStrokeImage(id) == StrOp("StrokeImage", id)
OpStrokeStream(id) == StrOp("StrokeStream", id)
\* a rectangle with both flag bits: a fill call, then a stroke call
OpDrawRectBoth == NumOp("DrawRect", <<F_ONE, F_TWO, 3>>)

\* paint assignments, with ids the image cache holds ("a"), the stream
\* cache holds ("b"), and ids the cache asked does not hold
PaintOps ==
    { OpFillColor, OpFillLinear, OpFillLinearNaN, OpFillRadial,
      OpFillImage(IdA), OpFillImage(IdB), OpFillStream(IdB), OpFillStream(IdA),
      OpStrokeColor, OpStrokeLinear, OpStrokeImage(IdA), OpStrokeStream(IdA) }

\* the most paint assignments in front of a rectangle
MaxPaintLen == 2

\* some paint assignments, then a rectangle filled and stroked
PaintScripts ==
    {s \o <<OpDrawRectBoth>> : s \in SeqsUpTo(PaintOps, MaxPaintLen)}

\* text drawn with no font selected, with the cached font "a" and with font
\* "b", which FONT_CACHE does not hold; an empty text
TextScripts ==
    { <<OpDrawText>>, <<OpFont(IdA), OpDrawText>>, <<OpFont(IdB), OpDrawText>>,
      <<OpFont(IdB), OpDrawText, OpDrawRectBoth>>,
      <<OpFont(IdA), StrOp("DrawText", <<>>)>> }

\* the caches on a system where FontMgr matches neither "DejaVu Sans" nor "Sans"
NoSystemFont == [FullCaches EXCEPT !.default_font = FALSE]

\* sprite records: sx, sy, sw, sh, dx, dy, dw, dh, alpha
SpriteOne == <<0, 0, F_ONE, F_ONE, F_TWO, F_TWO, F_ONE, F_ONE, F_ONE>>
SpriteTwo == <<F_ONE, 0, F_TWO, F_ONE, 0, F_TWO, F_TWO, F_TWO, 0>>
OpDrawSprites(id, cmds) == MkOp("DrawSprites", <<>>, id, "", cmds)

\* batches of no, one and two records of the cached image "a" and of "b",
\* which only the stream cache holds, between a colour and a rectangle
SpriteScripts ==
    { <<OpFillColor, OpDrawSprites(id, cmds), OpDrawRectBoth>> :
        id \in {IdA, IdB},
        cmds \in {<<>>, <<SpriteOne>>, <<SpriteOne, SpriteTwo>>, <<SpriteTwo, SpriteOne>>} }

\* roots that reference "b" between operations of their own, and what "b"
\* holds: field changes, pushes and pops, a path and a transform
CallerScripts ==
    { <<pre, OpDrawScript(IdB)>> \o post :
        pre \in {OpFillColor, OpPushState},
        post \in {<<OpDrawRectBoth>>, <<OpPopState, OpDrawRectBoth>>} }
CalleeScripts ==
    { <<OpStrokeColor>>, <<OpPushState, OpFillLinear>>, <<OpPopState>>,
      <<OpFillLinear, OpPopPushState>>, <<OpMoveTo, OpTranslate>> }

\* the operations parse_script reads a fill/stroke flag for
ImmediateNames == {r[2] : r \in {row \in FixedTable : row[4]}}

\* the largest flag a shape is drawn with: bits 0 and 1, and one bit above
MaxFlag == 7

\* a shape of the given kind: as many f32 fields as its arm reads, then the flag
ShapeOp(name, flag) ==
    LET row == CHOOSE r \in FixedTable : r[2] = name
    IN  NumOp(name, [i \in 1..row[5] |-> F_ONE] \o <<flag>>)

\* a gradient fill, then one shape
ShapeScripts ==
    { <<OpFillLinear, ShapeOp(name, flag)>> :
        name \in ImmediateNames, flag \in 0..MaxFlag }

DrawSetups ==
    {Setup(StoreOf(r), FullCaches) :
        r \in SnapshotScripts \cup PaintScripts \cup SpriteScripts \cup ShapeScripts}
    \cup {Setup(StoreWith(r, b), FullCaches) :
            r \in CallerScripts, b \in CalleeScripts}
    \cup {Setup(StoreOf(r), c) : r \in TextScripts, c \in {FullCaches, NoSystemFont}}

\* the render thread about to make its first redraw of one of the setups
InitDraw ==
    /\ \E s \in DrawSetups : render_state = s.store /\ caches = s.caches
    /\ script = <<>> /\ parsed = Pending /\ built = NoBuild
    /\ rs_lock = "none" /\ dirty = FALSE /\ stop_flag = FALSE
    /\ api = Idle /\ api_result = NoResult
    /\ rpc = "lock" /\ ex = NewExecutor
    /\ gen = 0 /\ frame_gen = 0
    /\ frame_base = [state |-> DefaultRenderState, gen |-> 0]
    /\ HandleAtStart

SpecDraw == InitDraw /\ [][NextExec]_vars

----------------------------------------------------------------------------
(* C11: PushState snapshots every field                                     *)

\* the root script, alone in the store, is a prefix without references,
\* PushState at k, operations that are neither stack operations nor
\* references, and PopState as its last operation
PushChangePop(k) ==
    /\ DOMAIN render_state.scripts = {ROOT_ID}
    /\ k < Len(RootOps)
    /\ RootOps[k] = OpPushState
    /\ Last(RootOps) = OpPopState
    /\ \A j \in (k + 1)..(Len(RootOps) - 1) :
          RootOps[j].op \notin StackNames \cup {"DrawScript"}
    /\ \A j \in 1..(k - 1) : RootOps[j].op # "DrawScript"

\* the graphics state just before operation k of the root script
StateBefore(k) ==
    RunOps(SubSeq(RootOps, 1, k - 1), DefaultDrawState, NewCanvas, caches).ds

\* C11: when a redraw of a script that is a prefix, PushState, operations
\* that change the graphics state (no stack operation among them) and
\* PopState has finished, each of the thirteen fields of the graphics state
\* and the snapshot stack are what they were just before the PushState.
C11_PushSnapshotsEveryField ==
    \A k \in 1..Len(RootOps) :
        (Finished /\ PushChangePop(k)) => ex.ds = StateBefore(k)

\* a PushState on a state with every field off its default, a FillColor that
\* cleared the gradient, and the PopState that brought the gradient back
C11_Witness ==
    /\ Finished
    /\ PushChangePop(Len(SetEveryField) + 1)
    /\ RootOps[Len(RootOps) - 1] = OpFillColor
    /\ IsSome(ex.ds.fill_shader)
    /\ \A f \in SnapshotFields : ex.ds[f] # DefaultSnapshot[f]

----------------------------------------------------------------------------
(* C12, C13, C14: paint assignment                                          *)

FillPaintNames == {"FillColor", "FillLinear", "FillRadial", "FillImage", "FillStream"}
StrokePaintNames ==
    {"StrokeColor", "StrokeLinear", "StrokeRadial", "StrokeImage", "StrokeStream"}
ShaderNames ==
    {"FillLinear", "FillRadial", "FillImage", "FillStream",
     "StrokeLinear", "StrokeRadial", "StrokeImage", "StrokeStream"}

\* the shader the operation asks for, when one can be made
ShaderAsked(op, res) ==
    CASE op.op \in {"FillColor", "StrokeColor"} -> None
      [] op.op \in {"FillLinear", "StrokeLinear"} -> LinearShader(op.n)
      [] op.op \in {"FillRadial", "StrokeRadial"} -> RadialShader(op.n)
      [] op.op \in {"FillImage", "StrokeImage"} -> ImageShader(res.images, op.s)
      [] op.op \in {"FillStream", "StrokeStream"} -> ImageShader(res.streams, op.s)

\* a resolved paint carries a shader with the neutral white, or a flat
\* colour and no shader
OneOfColorAndShader(paint, flat) ==
    IF IsSome(paint.shader) THEN paint.color = WHITE ELSE paint.color = flat

\* every field of the graphics state outside `fields` is left as it was
OnlyChanges(fields) ==
    /\ \A f \in SnapshotFields \ fields : ex'.ds[f] = ex.ds[f]
    /\ ex'.ds.stack = ex.ds.stack
    /\ ex'.cv = ex.cv

\* this step executes one of the named operations
ExecutesOneOf(names) ==
    /\ NextOp.op \in names
    /\ Len(ex'.trace) = Len(ex.trace) + 1

PaintStep ==
    /\ (HasNextOp /\ ExecutesOneOf(FillPaintNames)) =>
          /\ ex'.ds.fill_shader = ShaderAsked(NextOp, caches)
          /\ OneOfColorAndShader(apply_fill_paint(ex'.ds), ex'.ds.fill_color)
          /\ NextOp.op = "FillColor" =>
                apply_fill_paint(ex'.ds).color = NextOp.n[1]
          /\ OnlyChanges({"fill_color", "fill_shader"})
    /\ (HasNextOp /\ ExecutesOneOf(StrokePaintNames)) =>
          /\ ex'.ds.stroke_shader = ShaderAsked(NextOp, caches)
          /\ OneOfColorAndShader(apply_stroke_paint(ex'.ds), ex'.ds.stroke_color)
          /\ NextOp.op = "StrokeColor" =>
                apply_stroke_paint(ex'.ds).color = NextOp.n[1]
          /\ OnlyChanges({"stroke_color", "stroke_shader"})

\* C12: an operation that assigns the fill paint leaves the fill resolved
\* either with the shader it asked for (and the neutral white) or with a flat
\* colour and no shader, never a shader together with a flat colour of its
\* own; FillColor leaves its colour and no shader; the stroke paint and every
\* other field are untouched.  The same holds of the stroke operations, with
\* the fill paint untouched.
C12_PaintIsColorOrShader == [][PaintStep]_vars

\* a gradient fill was assigned, and a stroke colour after it left it alone
C12_Witness ==
    /\ TraceOps = <<"FillLinear", "StrokeColor">>
    /\ ex.ds.fill_shader = LinearShader(OpFillLinear.n)
    /\ IsSome(ex.ds.fill_shader)
    /\ ex.ds.stroke_color = BLUE
    /\ ex.ds.stroke_shader = None

\* the root script runs alone, and the next operation is its k-th
AtRootOp(k) ==
    /\ HasNextOp
    /\ DOMAIN render_state.scripts = {ROOT_ID}
    /\ Last(ex.frames).pc = k

\* operation j of the root script is the flat colour in effect for `names`
\* before operation k: a shader was assigned before j, and between j and k
\* there is neither another assignment of that paint nor a state restore
FlatSince(j, k, color_name, names) ==
    /\ j < k
    /\ RootOps[j].op = color_name
    /\ \E i \in 1..(j - 1) :
          RootOps[i].op \in names \ {color_name} /\ IsSome(ShaderAsked(RootOps[i], caches))
    /\ \A i \in (j + 1)..(k - 1) :
          RootOps[i].op \notin names \cup {"PopState", "PopPushState", "DrawScript"}

\* the calls this step added to the canvas
NewCalls == SubSeq(ex'.cv.log, Len(ex.cv.log) + 1, Len(ex'.cv.log))

FlatAfterShaderStep ==
    \A k \in 1..(MaxPaintLen + 1) : \A j \in 1..(MaxPaintLen + 1) :
        (AtRootOp(k) /\ Executes("DrawRect")) =>
            /\ (FlagFill(Last(NextOp.n)) /\ FlatSince(j, k, "FillColor", FillPaintNames)) =>
                  /\ NewCalls # <<>>
                  /\ NewCalls[1].paint.style = "Fill"
                  /\ NewCalls[1].paint.shader = None
                  /\ NewCalls[1].paint.color = RootOps[j].n[1]
            /\ (FlagStroke(Last(NextOp.n))
                    /\ FlatSince(j, k, "StrokeColor", StrokePaintNames)) =>
                  /\ NewCalls # <<>>
                  /\ Last(NewCalls).paint.style = "Stroke"
                  /\ Last(NewCalls).paint.shader = None
                  /\ Last(NewCalls).paint.color = RootOps[j].n[1]

\* C13: when a shader (gradient or image) was assigned as fill paint and a
\* FillColor came after it, every fill drawn before the next assignment of
\* the fill paint or restore of the state has no shader and the colour of
\* that FillColor; the same for StrokeColor and the strokes drawn.
C13_ColorClearsShader == [][FlatAfterShaderStep]_vars

\* a rectangle filled in flat red after a gradient then a colour was assigned
C13_Witness ==
    /\ TraceOps = <<"FillLinear", "FillColor", "DrawRect">>
    /\ DrawCalls(ex.cv.log)[1].paint.style = "Fill"
    /\ DrawCalls(ex.cv.log)[1].paint.shader = None
    /\ DrawCalls(ex.cv.log)[1].paint.color = RED

ImageNames == {"FillImage", "FillStream", "StrokeImage", "StrokeStream"}

\* the cache the operation looks its id up in
CacheOf(op, res) ==
    IF op.op \in {"FillImage", "StrokeImage"} THEN res.images ELSE res.streams

\* the frames after an operation that was executed and referenced nothing
Advanced ==
    [ex.frames EXCEPT ![Len(ex.frames)].pc = Last(ex.frames).pc + 1]

ImagePaintStep ==
    (HasNextOp /\ ExecutesOneOf(ImageNames)) =>
        LET fill == NextOp.op \in {"FillImage", "FillStream"}
            shader == IF fill THEN ex'.ds.fill_shader ELSE ex'.ds.stroke_shader
            color == IF fill THEN ex'.ds.fill_color ELSE ex'.ds.stroke_color
        IN  /\ IF NextOp.s \in CacheOf(NextOp, caches)
               THEN /\ shader = Some([kind |-> "image", n |-> <<>>, s |-> NextOp.s])
                    /\ color = WHITE
               ELSE /\ shader = None
                    /\ color = TRANSPARENT
            /\ ex'.frames = Advanced
            /\ ex'.stack_ids = ex.stack_ids

\* a finished redraw of a script without references executed every operation
RanToEnd ==
    (Finished /\ DOMAIN render_state.scripts = {ROOT_ID})
        => ex.trace = Positions(ROOT_ID, 1, Len(RootOps))

\* C14: FillImage, FillStream, StrokeImage and StrokeStream with an id its
\* cache holds leave that paint's shader the image and its colour opaque
\* white; with an id the cache does not hold they leave no shader and the
\* colour fully transparent; either way the script goes on with its next
\* operation, and the redraw executes every operation of the script.
C14_ImagePaintOrTransparent == [](RanToEnd) /\ [][ImagePaintStep]_vars

\* an image the cache lacks replaced a gradient fill, and the rectangle after
\* it was filled transparent without a shader
C14_Witness ==
    /\ Finished
    /\ NamesOf(RootOps) = <<"FillLinear", "FillImage", "DrawRect">>
    /\ RootOps[2].s \notin caches.images
    /\ Len(ex.trace) = 3
    /\ DrawCalls(ex.cv.log)[1].paint.shader = None
    /\ DrawCalls(ex.cv.log)[1].paint.color = TRANSPARENT

----------------------------------------------------------------------------
(* C15: the font DrawText draws with                                        *)

\* the typeface a draw_str call was made with: a cached id, <<>> for the
\* built-in font
TypefaceOf(c) == c.path[1][2][2]

TextFallbackStep ==
    (Executes("DrawText") /\ NextOp.s # <<>> /\ caches.default_font) =>
        /\ Len(NewCalls) = 1
        /\ NewCalls[1].call = "draw_str"
        /\ TypefaceOf(NewCalls[1])
             = IF IsSome(ex.ds.font_id) /\ ex.ds.font_id[1] \in caches.fonts
               THEN ex.ds.font_id[1]
               ELSE <<>>

\* C15: on a system that has the built-in font, DrawText of a non-empty
\* string makes one draw_str call: with the cached typeface of the selected
\* font id when it is cached, and with the built-in font when no id is
\* selected and when the selected id is not cached.
C15_TextAlwaysResolvesFont == [][TextFallbackStep]_vars

----------------------------------------------------------------------------
(* C16: sprite batches                                                      *)

SpriteStep ==
    Executes("DrawSprites") =>
        /\ IF NextOp.s \in caches.images
           THEN /\ Len(NewCalls) = Len(NextOp.cmds)
                /\ \A i \in 1..Len(NewCalls) :
                      /\ NewCalls[i].call = "draw_image_rect"
                      /\ NewCalls[i].n = NextOp.cmds[i]
                      /\ NewCalls[i].path = Some(<<Verb("image", NextOp.s)>>)
           ELSE ex'.cv = ex.cv
        /\ ex'.ds = ex.ds
        /\ ex'.frames = Advanced
        /\ ex'.stack_ids = ex.stack_ids

\* a finished redraw of a sprite script drew the rectangle after the batch
SpriteThenRect ==
    (Finished /\ DOMAIN render_state.scripts = {ROOT_ID}
              /\ NamesOf(RootOps) = <<"FillColor", "DrawSprites", "DrawRect">>)
        => /\ ex.trace = Positions(ROOT_ID, 1, 3)
           /\ Last(ex.cv.log).call = "restore"
           /\ ex.cv.log[Len(ex.cv.log) - 1].call = "DrawRect"

\* C16: DrawSprites of an image the static image cache holds makes one
\* draw_image_rect call per command record, in record order, each with that
\* record's rectangles; of an image the cache does not hold it makes no call;
\* either way the graphics state is unchanged and the script goes on with the
\* operation that follows.
C16_SpritesBlitOrSkip == [](SpriteThenRect) /\ [][SpriteStep]_vars

\* a batch of two records was drawn in order, and the rectangle after it
C16_Witness ==
    /\ Finished
    /\ Len(RootOps) = 3
    /\ RootOps[2] = OpDrawSprites(IdA, <<SpriteTwo, SpriteOne>>)
    /\ Len(DrawCalls(ex.cv.log)) = 4
    /\ DrawCalls(ex.cv.log)[1].n = SpriteTwo
    /\ DrawCalls(ex.cv.log)[2].n = SpriteOne
    /\ ex.ds.fill_color = RED

----------------------------------------------------------------------------
(* C17: a reference to a script the map does not hold                       *)

MissingRefStep ==
    (Executes("DrawScript") /\ NextOp.s \notin DOMAIN render_state.scripts) =>
        /\ ex'.ds = ex.ds
        /\ ex'.cv = ex.cv
        /\ ex'.stack_ids = ex.stack_ids
        /\ ex'.frames = Advanced

\* the state the last redraw read had a root script whose every reference
\* names an id the map did not hold
DrewMissingRefs ==
    /\ rpc = "check_stop"
    /\ frame_base.state.root_id = Some(ROOT_ID)
    /\ ROOT_ID \in DOMAIN frame_base.state.scripts
    /\ \E i \in 1..Len(frame_base.state.scripts[ROOT_ID]) :
          frame_base.state.scripts[ROOT_ID][i].op = "DrawScript"
    /\ \A i \in 1..Len(frame_base.state.scripts[ROOT_ID]) :
          frame_base.state.scripts[ROOT_ID][i].op = "DrawScript" =>
             frame_base.state.scripts[ROOT_ID][i].s \notin DOMAIN frame_base.state.scripts

MissingRefSkipped ==
    DrewMissingRefs =>
        /\ ex.trace = Positions(ROOT_ID, 1, Len(frame_base.state.scripts[ROOT_ID]))
        /\ Len(DrawCalls(ex.cv.log))
             = Count(frame_base.state.scripts[ROOT_ID], IsDrawRect)

\* C17: a DrawScript naming an id the script map does not hold (never
\* installed, or deleted) leaves graphics state, canvas and the stack of
\* executing ids as they were and moves on to the next operation; the redraw
\* executes the operations after it and draws what they draw.
C17_MissingScriptSkipped == [](MissingRefSkipped) /\ [][MissingRefStep]_vars

\* the root references "a", "a" was deleted, and the redraw after the
\* deletion drew the root's rectangle
C17_Witness ==
    /\ DrewMissingRefs
    /\ api_result.call = "del_script"
    /\ api_result.ok
    /\ frame_gen = 2
    /\ ex.trace = <<<<ROOT_ID, 1>>, <<ROOT_ID, 2>>>>
    /\ Len(DrawCalls(ex.cv.log)) = 1

----------------------------------------------------------------------------
(* C18: a sub-script runs on the caller's graphics state                    *)

NoRefs(ops) == \A i \in 1..Len(ops) : ops[i].op # "DrawScript"

\* the root references "b" at `at` and nowhere else, and "b" references nothing
CallsOnce(at) ==
    /\ DOMAIN render_state.scripts = {ROOT_ID, IdB}
    /\ at \in 1..Len(RootOps)
    /\ IsRef(RootOps[at], IdB)
    /\ NoRefs(SubSeq(RootOps, 1, at - 1))
    /\ NoRefs(SubSeq(RootOps, at + 1, Len(RootOps)))
    /\ NoRefs(render_state.scripts[IdB])

\* the root script with the operations of "b" written where the reference is
Inlined(at) ==
    SubSeq(RootOps, 1, at - 1) \o render_state.scripts[IdB]
        \o SubSeq(RootOps, at + 1, Len(RootOps))

\* what a redraw of a root script `ops` without references leaves
RedrawOf(ops) ==
    LET r == RunOps(ops, DefaultDrawState,
                    BeginRedraw(NewExecutor, render_state).cv, caches)
    IN  [ds |-> r.ds, cv |-> CanvasRestore(r.cv)]

SameAsInline ==
    \A at \in 1..Len(RootOps) :
        (Finished /\ CallsOnce(at)) =>
            /\ ex.ds = RedrawOf(Inlined(at)).ds
            /\ ex.cv = RedrawOf(Inlined(at)).cv

\* entering a script and returning from one touch neither state nor canvas
CallReturnStep ==
    (rpc = "drawing" /\ rpc' = "drawing" /\ Len(ex'.frames) # Len(ex.frames)) =>
        /\ ex'.ds = ex.ds
        /\ ex'.cv = ex.cv

\* C18: a redraw of a root that references a sub-script ends with the
\* graphics state (fields and snapshot stack) and the canvas (matrix, clip,
\* save stack and every call with its paint) that a redraw of the root with
\* the sub-script's operations written in place of the reference ends with;
\* the steps that enter and leave the sub-script change neither.
C18_SubScriptSharesState == [](SameAsInline) /\ [][CallReturnStep]_vars

\* the sub-script pushed a snapshot and assigned a gradient; the caller's
\* PopState took that snapshot and its rectangle was filled with the colour
\* the caller had set before the reference
C18_Witness ==
    /\ Finished
    /\ CallsOnce(2)
    /\ RootOps = <<OpFillColor, OpDrawScript(IdB), OpPopState, OpDrawRectBoth>>
    /\ render_state.scripts[IdB] = <<OpPushState, OpFillLinear>>
    /\ ex.ds.stack = <<>>
    /\ DrawCalls(ex.cv.log)[1].paint.shader = None
    /\ DrawCalls(ex.cv.log)[1].paint.color = RED

----------------------------------------------------------------------------
(* C19: the fill and stroke bits of an immediate draw                       *)

Bit(flag, k) == (flag \div (2 ^ k)) % 2

\* this step made `fills` fill calls and then `strokes` stroke calls, with
\* the paints the graphics state resolves to, and nothing else
DrewFillsThenStrokes(fills, strokes) ==
    /\ Len(NewCalls) = fills + strokes
    /\ \A i \in 1..Len(NewCalls) :
          NewCalls[i].paint
             = IF i <= fills THEN apply_fill_paint(ex.ds) ELSE apply_stroke_paint(ex.ds)
    /\ SubSeq(ex'.cv.log, 1, Len(ex.cv.log)) = ex.cv.log
    /\ ex'.ds = ex.ds

FlagStepEveryShape ==
    (HasNextOp /\ ExecutesOneOf(ImmediateNames)) =>
        DrewFillsThenStrokes(Bit(Last(NextOp.n), 0), Bit(Last(NextOp.n), 1))

\* C19 as stated: every immediate-draw operation, DrawLine included, makes
\* as many fill calls as bit 0 of its flag and as many stroke calls as bit 1.
C19_FlagBitsEveryShape == [][FlagStepEveryShape]_vars

FlagStep ==
    (HasNextOp /\ ExecutesOneOf(ImmediateNames)) =>
        DrewFillsThenStrokes(
            IF NextOp.op = "DrawLine" THEN 0 ELSE Bit(Last(NextOp.n), 0),
            Bit(Last(NextOp.n), 1))

\* C19, amended: every immediate-draw operation other than DrawLine makes as
\* many fill calls as bit 0 of its flag and then as many stroke calls as bit
\* 1, each with the paint the graphics state resolves to; DrawLine makes a
\* stroke call when bit 1 is set and never a fill call; bits above bit 1
\* change nothing.
C19_FlagBitsButLine == [][FlagStep]_vars

\* a rounded rectangle with flag 7 drew a gradient fill then a stroke
C19_Witness ==
    /\ Finished
    /\ Len(RootOps) = 2
    /\ RootOps[2] = ShapeOp("DrawRRect", MaxFlag)
    /\ Len(DrawCalls(ex.cv.log)) = 2
    /\ IsSome(DrawCalls(ex.cv.log)[1].paint.shader)
    /\ DrawCalls(ex.cv.log)[1].paint.style = "Fill"
    /\ DrawCalls(ex.cv.log)[2].paint.style = "Stroke"

----------------------------------------------------------------------------
(* C20: reset_scene                                                         *)

ResetStep ==
    (CallUpdated /\ ResetScene) =>
        /\ render_state'.scripts = <<>>
        /\ render_state'.root_id = None
        /\ script_count(render_state') = 0
        /\ render_state'.clear_color = render_state.clear_color

\* C20: a reset_scene call, whatever the render state it finds, succeeds and
\* leaves the script map empty and the root identifier cleared, so that
\* script_count returns 0; the clear color is what it was.
C20_ResetEmptiesScene == [][ResetStep]_vars

\* reset_scene ran after a submit_script had installed and rooted a script
C20_Witness ==
    /\ api = [pc |-> "signal", call |-> "reset_scene"]
    /\ api_result.call = "submit_script"
    /\ api_result.ok
    /\ script_count(render_state) = 0
    /\ render_state.root_id = None

----------------------------------------------------------------------------
(* C21, C22: del_script and the installing calls                            *)

\* the scripts of the two states agree everywhere but at `id`
OthersUnchanged(id) ==
    /\ DOMAIN render_state'.scripts \ {id} = DOMAIN render_state.scripts \ {id}
    /\ \A k \in DOMAIN render_state.scripts \ {id} :
           render_state'.scripts[k] = render_state.scripts[k]

DelStep ==
    \A id \in Ids :
        DelScript(id) =>
            /\ CallUpdated
            /\ id \notin DOMAIN render_state'.scripts
            /\ OthersUnchanged(id)
            /\ (render_state'.root_id = None /\ render_state.root_id # None)
                   <=> render_state.root_id = Some(id)
            /\ render_state'.root_id \in {None, render_state.root_id}
            /\ render_state'.clear_color = render_state.clear_color
            /\ id \notin DOMAIN render_state.scripts => render_state' = render_state

\* C21: a del_script(id) call succeeds; afterwards id has no entry, every
\* other script is what it was, the root designation is cleared exactly when
\* it designated id, the clear color is what it was, and when id had no
\* entry the render state is unchanged.
C21_DelRemovesExactlyId == [][DelStep]_vars

\* del_script of the root id ran on a store holding the root script and "a":
\* "a" is left, nothing is designated
C21_Witness ==
    /\ api = [pc |-> "signal", call |-> "del_script"]
    /\ DOMAIN render_state.scripts = {IdA}
    /\ render_state.scripts[IdA] = <<OpFillColor>>
    /\ render_state.root_id = None

\* what an installing call of (id, bin) leaves
Installed(id, bin) ==
    /\ id \in DOMAIN render_state'.scripts
    /\ render_state'.scripts[id] = parse_script(bin).ops
    /\ OthersUnchanged(id)
    /\ render_state'.root_id =
           IF id = ROOT_ID THEN Some(ROOT_ID) ELSE render_state.root_id
    /\ render_state'.clear_color = render_state.clear_color

InstallStep ==
    /\ \A id \in Ids, bin \in Buffers :
           (CallUpdated /\ SubmitScriptWithId(id, bin)) => Installed(id, bin)
    /\ \A bin \in Buffers :
           (CallUpdated /\ SubmitScript(bin)) => Installed(ROOT_ID, bin)

\* C22: a submit_script_with_id(id, bin) call that succeeds leaves id's entry
\* equal to the operations decoded from bin, every other entry as it was, and
\* the root identifier equal to the reserved root id when id is that id and
\* as it was otherwise; a submit_script(bin) call that succeeds does the same
\* for the reserved root id.
C22_InstallReplacesExactlyId == [][InstallStep]_vars

\* submit_script_with_id replaced the script of "a" next to the root script
C22_Witness ==
    /\ api = [pc |-> "signal", call |-> "submit_script_with_id"]
    /\ DOMAIN render_state.scripts = {ROOT_ID, IdA}
    /\ render_state.scripts[IdA] = <<OpDrawScript(IdA), OpDrawRect>>
    /\ render_state.scripts[ROOT_ID] = <<OpDrawScript(IdA), OpDrawRect>>
    /\ render_state.root_id = Some(ROOT_ID)

----------------------------------------------------------------------------
(* parse_script on single operations of every opcode                        *)

\* -1.0: 1.0 with the sign bit set
F_NEG == F_ONE - 2147483647 - 1
\* 0.5 and +infinity
F_HALF == \h3F000000
F_INF == \h7F800000
\* a colour whose four channels differ, alpha with the top bit set
TEAL == from_argb(\h80, \h10, \hE0, \h7F)

\* field values of the sample operations, in two choices
FloatSamples ==
    { <<F_ONE, F_NEG, F_TWO, 0, F_NAN, F_FOUR, F_HALF, F_INF>>,
      <<F_NAN, F_INF, F_NEG, F_HALF, 0, F_ONE, F_TWO, F_NEG>> }
ColorSamples == { <<RED, TEAL>>, <<TEAL, TRANSPARENT>> }
\* PathArc's dir, a u32: 1, and a word with the top bit set
WordSamples == { <<1>>, <<F_NEG>> }
\* flags: fill and stroke, and a flag that needs both of its bytes
FlagSamples == { <<3>>, <<\h0102>> }

FixedOps(row) ==
    { NumOp(row[2], Take(f, row[5]) \o Take(c, row[6]) \o Take(w, row[7])
                    \o (IF row[4] THEN g ELSE <<>>)) :
          f \in FloatSamples, c \in ColorSamples, w \in WordSamples, g \in FlagSamples }

\* strings of 0, 1, 4 and 6 bytes: padded by 0, 3, 0 and 2
StringSamples == { <<>>, IdA, <<116, 101, 120, 116>>, ROOT_ID }
StringOps(row) == { StrOp(row[2], s) : s \in StringSamples }

EnumeratedOps(row) == { EnumOp(row[2], row[5][i]) : i \in 1..Len(row[5]) }

\* 0.0, 0.25, 2.0 and 16383.75 as quarter units; 0.0, 1.0, 8.0, 65535.0 as units
WordOps(row) ==
    { NumOp(row[2], <<v>>) :
          v \in IF row[4] THEN {0, \h3E800000, F_TWO, \h467FFF00}
                          ELSE {0, F_ONE, \h41000000, \h477FFF00} }

\* a sprite record whose nine fields all differ
SpriteNine == <<F_ONE, F_TWO, F_FOUR, F_HALF, F_NEG, F_NAN, F_INF, 0, \h3E800000>>

SpriteOps ==
    { OpDrawSprites(id, cmds) :
          id \in {<<>>, IdA, ROOT_ID},
          cmds \in {<<>>, <<SpriteOne>>, <<SpriteOne, SpriteTwo>>, <<SpriteNine, SpriteOne>>} }

\* operations of every opcode parse_script has an arm for
EveryOp ==
    UNION {FixedOps(r) : r \in FixedTable}
    \cup UNION {StringOps(r) : r \in StringTable}
    \cup UNION {EnumeratedOps(r) : r \in EnumTable}
    \cup UNION {WordOps(r) : r \in WordTable}
    \cup SpriteOps


\* one operation of every opcode, for the buffers that are cut short; the
\* strings and sprite batches in every sample
TruncatedOps ==
    {CHOOSE op \in FixedOps(r) : TRUE : r \in FixedTable}
    \cup UNION {StringOps(r) : r \in StringTable}
    \cup {CHOOSE op \in EnumeratedOps(r) : TRUE : r \in EnumTable}
    \cup {CHOOSE op \in WordOps(r) : TRUE : r \in WordTable}
    \cup SpriteOps

\* the operations in front of a probed tag
WirePrefixes == { <<>>, <<OpFillColor>>, <<OpDrawText, OpStrokeCap>> }

\* tags no arm of parse_script matches: every one below 1024, the test's
\* 0x1234, the supported tags with their two bytes swapped, and the highest
WireUnknownTags ==
    ((0..1023) \cup {\h1234, \hFFFF} \cup {(t % 256) * 256 + (t \div 256) : t \in SupportedTags})
        \ SupportedTags

\* wire values at and above the number of enumerants of a row
WireBadEnumerants(row) ==
    (Len(row[5])..(Len(row[5]) + 4)) \cup {\hFF, \h0100, \h0101, \h0102, \h0103, \h8000, \hFFFF}

\* the longest of the short strings
MaxStrLen == 8
\* declared lengths: every short one, and three that need both length bytes
StringLengths == (0..MaxStrLen) \cup {255, 256, 257}
\* a string of len ASCII bytes, each different from its neighbours
TextOfLen(len) == [i \in 1..len |-> 33 + (i % 90)]
\* padding bytes: zero as producers write them, and 'x'
PadBytes == {0, 120}


WireBuilds ==
    {Build(<<>>, op, "none", 0, <<>>) : op \in EveryOp}
    \cup {Build(<<>>, NumOp(c[1], <<>>), "colour", k, <<>>) :
              c \in ColorFields, k \in 0..(5^4 - 1)}
    \cup {Build(<<>>, op, "id first", 0, x) : op \in SpriteOps, x \in Suffixes}
    \cup UNION {{Build(<<>>, op, "short", k, x) : k \in ShortKinds, x \in {<<>>}} :
                    op \in SpriteOps}
    \cup {Build(<<>>, StrOp(r[2], TextOfLen(len)), "padded", byte, x) :
              r \in StringTable, len \in StringLengths, byte \in PadBytes,
              x \in {<<>>, <<OpFillColor>>} }
    \cup UNION {{Build(<<>>, op, "truncated", k, <<>>) : k \in 2..(Len(Encode(op)) - 1)} :
                    op \in TruncatedOps}
    \cup {Build(p, OpFillColor, "unknown", tag, <<OpPushState>>) :
              p \in WirePrefixes, tag \in WireUnknownTags}
    \cup UNION {{Build(p, EnumOp(r[2], r[5][1]), "enum", v, x) :
                    p \in WirePrefixes, v \in WireBadEnumerants(r), x \in Suffixes} :
                    r \in EnumTable}

InitWire ==
    /\ built \in WireBuilds
    /\ script = BytesOf(built)
    /\ parsed = Pending
    /\ render_state = DefaultRenderState
    /\ rs_lock = "none" /\ dirty = FALSE /\ stop_flag = FALSE
    /\ api = Idle /\ api_result = NoResult
    /\ rpc = "lock" /\ ex = NewExecutor /\ caches = SomeCaches
    /\ gen = 0 /\ frame_gen = 0
    /\ frame_base = [state |-> DefaultRenderState, gen |-> 0]
    /\ HandleAtStart

\* parse_script called on one buffer of the wire families
SpecWire == InitWire /\ [][NextParse]_vars

----------------------------------------------------------------------------
(* C23: the round trip                                                      *)

\* C23: for every sample operation of every opcode, parse_script of the
\* buffer that encodes the operation alone returns the list of exactly that
\* operation, each numeric field with the bits that were encoded.
C23_RoundTrip ==
    (Parsed /\ built.defect = "none" /\ built.ops = <<>> /\ built.suffix = <<>>) =>
        parsed = Ok(<<built.subject>>)

\* a path arc whose fields include -1.0, NaN and a dir with the top bit set
\* came back from its 28 bytes
C23_Witness ==
    /\ Parsed
    /\ built.defect = "none"
    /\ Len(script) = 28
    /\ parsed.ok
    /\ parsed.ops = <<NumOp("PathArc", <<F_ONE, F_NEG, F_TWO, 0, F_NAN, F_NEG>>)>>

----------------------------------------------------------------------------
(* C24: payloads cut short                                                  *)

\* the truncation messages of the arm of a tag
TruncationMessages(tag) ==
    IF tag \in FixedTags THEN {RowOf(FixedTable, tag)[3]}
    ELSE IF tag \in StringTags
    THEN {RowOf(StringTable, tag)[3], RowOf(StringTable, tag)[4]}
    ELSE IF tag \in EnumTags THEN {RowOf(EnumTable, tag)[3]}
    ELSE IF tag \in WordTags THEN {RowOf(WordTable, tag)[3]}
    ELSE {"draw_sprites opcode truncated", "draw_sprites payload truncated",
          "draw_sprites command data truncated"}

\* C24: for one operation of every opcode (every sample string and sprite
\* batch), parse_script of its encoding with one or more bytes taken off the
\* end, the tag kept, returns an error, and the message is one of the
\* truncation messages of that opcode's arm, which no other opcode's arm has.
C24_TruncationNamesOpcode ==
    (Parsed /\ built.defect = "truncated") =>
        /\ ~parsed.ok
        /\ parsed.err \in TruncationMessages(TagOf(built.subject))
        /\ \A t \in SupportedTags \ {TagOf(built.subject)} :
               parsed.err \notin TruncationMessages(t)

\* a font operation that lost only its last padding byte was refused
C24_Witness ==
    /\ Parsed
    /\ built.defect = "truncated"
    /\ built.subject = StrOp("Font", ROOT_ID)
    /\ Len(script) = 11
    /\ parsed = Err("font payload truncated")

----------------------------------------------------------------------------
(* C25, C26: unknown tags and enumerants out of range                       *)

\* C25: a tag that no arm matches, first in the buffer or behind one or two
\* well-formed operations, makes parse_script return the "unsupported
\* opcode" error, whatever follows the tag.
C25_UnknownTagUnsupported ==
    (Parsed /\ built.defect = "unknown") => parsed = Err("unsupported opcode")

\* the tag 0x6000, fill_color's with its bytes swapped, behind a text and a
\* cap operation
C25_Witness ==
    /\ Parsed
    /\ built.defect = "unknown"
    /\ built.k = \h6000
    /\ built.ops = <<OpDrawText, OpStrokeCap>>
    /\ parsed = Err("unsupported opcode")

\* the enumerants an operation list carries are those of its opcode
EnumerantsInRange(ops) ==
    \A i \in 1..Len(ops) :
        \A r \in EnumTable :
            ops[i].op = r[2] => \E j \in 1..Len(r[5]) : ops[i].e = r[5][j]

\* C26: a ClipPath, StrokeCap, StrokeJoin, TextAlign or TextBase whose wire
\* value is at or above the number of its enumerants (2, 3, 3, 3, 4) makes
\* parse_script return an error with no operation list, wherever the
\* operation stands; and every operation list parse_script returns carries
\* only enumerants of the opcode's enumeration.
C26_BadEnumerantRejected ==
    Parsed =>
        /\ built.defect = "enum" => (~parsed.ok /\ DOMAIN parsed = {"ok", "err"})
        /\ parsed.ok => EnumerantsInRange(parsed.ops)

\* a text baseline of 4 between well-formed operations was refused
C26_Witness ==
    /\ Parsed
    /\ built.defect = "enum"
    /\ built.subject.op = "TextBase"
    /\ built.k = 4
    /\ built.ops = <<OpFillColor>>
    /\ built.suffix = <<OpPushState>>
    /\ parsed = Err("unsupported text_base value")

----------------------------------------------------------------------------
(* C27: strings and their padding                                           *)

\* C27: for each of the seven string opcodes and every declared length L of
\* the samples, a buffer of the tag, the 2-byte length, L bytes, padding up
\* to the next multiple of 4 (that is (4 - L mod 4) mod 4 bytes, of any
\* value) and then nothing or a further operation decodes to the operation
\* whose string is the L bytes, followed by the further operation: the
\* decoder took exactly L + ((4 - L mod 4) mod 4) bytes behind the length.
C27_StringConsumesPadded ==
    (Parsed /\ built.defect = "padded") =>
        LET L == Len(built.subject.s)
        IN  /\ Len(script) = 4 + L + ((4 - (L % 4)) % 4) + Len(EncodeAll(built.suffix))
            /\ parsed = Ok(<<built.subject>> \o built.suffix)

\* a stroke image identifier of 257 bytes, padded by three 'x', and the fill
\* colour behind it were decoded
C27_Witness ==
    /\ Parsed
    /\ built.defect = "padded"
    /\ built.subject.op = "StrokeImage"
    /\ Len(built.subject.s) = 257
    /\ built.k = 120
    /\ Len(script) = 272
    /\ parsed.ok
    /\ Len(parsed.ops) = 2
    /\ parsed.ops[1].s = TextOfLen(257)
    /\ parsed.ops[2] = OpFillColor

----------------------------------------------------------------------------
(* C28: sprite batches                                                      *)

\* the f32 at `offset` bytes into the buffer
FieldAt(offset) == F32(SubSeq(script, offset + 1, offset + 4))

\* the buffer holds, behind the tag, the identifier's 2-byte length, the
\* 4-byte count, the identifier, its padding and then the records, and
\* `ops` is the one DrawSprites operation of exactly those records
DecodedCountFirst(ops) ==
    LET len == U16(SubSeq(script, 3, 4))
        count == U32(SubSeq(script, 5, 8))
        records == 8 + len + ((4 - (len % 4)) % 4)
    IN  /\ Len(ops) = 1
        /\ ops[1].op = "DrawSprites"
        /\ ops[1].s = SubSeq(script, 9, 8 + len)
        /\ Len(ops[1].cmds) = count
        /\ Len(script) = records + 36 * count
        /\ \A i \in 1..count :
               /\ Len(ops[1].cmds[i]) = 9
               /\ \A j \in 1..9 :
                      ops[1].cmds[i][j] = FieldAt(records + 36 * (i - 1) + 4 * (j - 1))

\* C28 (amended): a sprite-batch payload laid out as the 2-byte identifier
\* length, the 4-byte count, the identifier with its padding and then the
\* records decodes to one DrawSprites operation holding exactly count
\* records of nine 4-byte fields each, in buffer order; a buffer whose count
\* is above the number of complete records it holds is a decode error.
C28_SpritesCountFirst ==
    Parsed =>
        /\ (built.defect = "none" /\ built.subject.op = "DrawSprites") =>
               (parsed.ok /\ DecodedCountFirst(parsed.ops))
        /\ built.defect = "short" => ~parsed.ok

\* C28 (as stated): a sprite-batch payload laid out as the length-prefixed,
\* padded identifier followed by the 4-byte count and then the records
\* decodes to the one DrawSprites operation of that identifier and those
\* records.
C28_SpritesIdFirst ==
    (Parsed /\ built.defect = "id first") =>
        parsed = Ok(<<built.subject>> \o built.suffix)

\* two records of nine different fields behind the identifier "_root_" were
\* decoded in order
C28_Witness ==
    /\ Parsed
    /\ built.defect = "none"
    /\ built.subject = OpDrawSprites(ROOT_ID, <<SpriteNine, SpriteOne>>)
    /\ Len(script) = 88
    /\ parsed.ok
    /\ parsed.ops[1].cmds = <<SpriteNine, SpriteOne>>

----------------------------------------------------------------------------
(* C29: quarter units                                                       *)

\* StrokeWidth and FontSize with every value of their 2-byte field
WordBuilds ==
    {Build(<<>>, NumOp(name, <<0>>), "word", v, <<>>) :
         name \in {"StrokeWidth", "FontSize"}, v \in 0..\hFFFF}

InitWord ==
    /\ built \in WordBuilds
    /\ script = BytesOf(built)
    /\ parsed = Pending
    /\ render_state = DefaultRenderState
    /\ rs_lock = "none" /\ dirty = FALSE /\ stop_flag = FALSE
    /\ api = Idle /\ api_result = NoResult
    /\ rpc = "lock" /\ ex = NewExecutor /\ caches = SomeCaches
    /\ gen = 0 /\ frame_gen = 0
    /\ frame_base = [state |-> DefaultRenderState, gen |-> 0]
    /\ HandleAtStart

\* parse_script called on a stroke width or font size operation
SpecWord == InitWord /\ [][NextParse]_vars

\* the f32 of these bits is v/4: it is 0.0 and v is 0, or it is positive with
\* exponent field e and fraction f, its value (2^23 + f) * 2^(e - 150), and
\* four times that value is v
IsQuarterOf(bits, v) ==
    LET e == bits \div 8388608
        f == bits % 8388608
    IN  IF v = 0 THEN bits = 0
        ELSE /\ bits > 0
             /\ e \in 100..150
             /\ (8388608 + f) * 4 = v * 2^(150 - e)

\* C29: a StrokeWidth or FontSize whose 2-byte big-endian field is v decodes,
\* for every v in 0..65535, to the operation whose f32 is exactly v/4; the
\* field 8 decodes to 2.0.
C29_QuarterUnits ==
    (Parsed /\ built.defect = "word") =>
        /\ parsed.ok
        /\ Len(parsed.ops) = 1
        /\ parsed.ops[1].op = built.subject.op
        /\ Len(parsed.ops[1].n) = 1
        /\ IsQuarterOf(parsed.ops[1].n[1], built.k)
        /\ built.k = 8 => parsed.ops[1].n[1] = F_TWO

\* the font size field 0xFFFF was decoded to 16383.75
C29_Witness ==
    /\ Parsed
    /\ built.defect = "word"
    /\ built.k = \hFFFF
    /\ script = <<0, \h91, \hFF, \hFF>>
    /\ parsed = Ok(<<NumOp("FontSize", <<\h467FFF00>>)>>)

----------------------------------------------------------------------------
(* C30: colour fields                                                       *)

\* Color::a, r, g, b: the channels of a packed ARGB word
Alpha(c) == (c \div 16777216) % 256
Red(c) == (c \div 65536) % 256
Green(c) == (c \div 256) % 256
Blue(c) == c % 256

HasChannels(c, r, g, b, a) ==
    Alpha(c) = a /\ Red(c) = r /\ Green(c) = g /\ Blue(c) = b

\* C30: in FillColor, StrokeColor and the two colours of FillLinear,
\* FillRadial, StrokeLinear and StrokeRadial, a field of the four bytes
\* [r, g, b, a], each drawn from 0, 1, 0x7F, 0x80 and 0xFF, decodes to the
\* colour whose alpha is a, red r, green g and blue b.
C30_ColorsAlphaFirst ==
    (Parsed /\ built.defect = "colour") =>
        LET row == ColorRow(built.subject.op)
            x == RgbaBytes(built.k)
        IN  /\ parsed.ok
            /\ Len(parsed.ops) = 1
            /\ parsed.ops[1].op = row[1]
            /\ Len(parsed.ops[1].n) = row[2] + row[3]
            /\ HasChannels(parsed.ops[1].n[row[2] + 1], x[1], x[2], x[3], x[4])
            /\ row[3] = 2 =>
                   HasChannels(parsed.ops[1].n[row[2] + 2], x[4], x[3], x[2], x[1])

\* the bytes 0xFF, 0x01, 0x7F, 0x80 of a stroke colour became alpha 0x80,
\* red 0xFF, green 0x01, blue 0x7F
C30_Witness ==
    /\ Parsed
    /\ built.defect = "colour"
    /\ script = <<0, \h71, 0, 0, \hFF, 1, \h7F, \h80>>
    /\ parsed.ok
    /\ parsed.ops = <<NumOp("StrokeColor", <<from_argb(\h80, \hFF, 1, \h7F)>>)>>

----------------------------------------------------------------------------
(* The input queue, input.rs.  Backend threads push events, the caller      *)
(* sets the target and drains; each works on the queue under its mutex and, *)
(* when the queue method returned Some(pid), sends input_ready to pid       *)
(* right after unlocking.  `mailbox` holds those messages in the order the  *)
(* queue produced them, each with the number of drains before it.           *)

\* what a queue method leaves and returns
Notify(queue, pid) == [queue |-> queue, notify |-> pid]

\* a push_event that notifies on every event
push_event_always(queue, event) ==
    Notify([queue EXCEPT !.events = Append(queue.events, event), !.notified = TRUE],
           queue.target)

\* InputQueue::push_event
push_event(queue, event) ==
    LET pushed == [queue EXCEPT !.events = Append(queue.events, event)]
    IN  IF queue.notified THEN Notify(pushed, None)
        ELSE IF queue.target = None THEN Notify(pushed, None)
        ELSE Notify([pushed EXCEPT !.notified = TRUE], queue.target)

\* InputQueue::set_target
set_target(queue, target) ==
    LET set == [queue EXCEPT !.target = target]
    IN  IF queue.notified THEN Notify(set, None)
        ELSE IF queue.events = <<>> THEN Notify(set, None)
        ELSE IF target = None THEN Notify(set, None)
        ELSE Notify([set EXCEPT !.notified = TRUE], target)

\* events.drain(..).collect(): the events taken out
Collected(queue) == queue.events

\* a drain that leaves the events in the queue
drain_keeping(queue) == [queue EXCEPT !.notified = FALSE]

\* InputQueue::drain: what it leaves
drain(queue) == [queue EXCEPT !.notified = FALSE, !.events = <<>>]

\* notify_input_ready(pid) for the Option a queue method returned
Sent(box, notify) ==
    IF notify = None THEN box
    ELSE Append(box, [to |-> notify[1], drains |-> Len(drained)])

\* the most events pushed and the most drains of one run
MaxEvents == 3
MaxDrains == 3

\* the processes an input target can be
Pids == {"p1", "p2"}
\* the kinds of event the backend pushes here
EventKinds == {"CursorPos", "Key"}

\* every sequence in `seqs`, one after the other
AllOf(seqs) == Flatten(seqs)
\* the number of events pushed so far
Pushed == Len(AllOf(drained)) + Len(input_events.events)

\* push_input of a backend: the event, numbered in push order, goes into the
\* queue and the target the queue names is notified
PushInput(kind) ==
    /\ Pushed < MaxEvents
    /\ LET r == push_event(input_events, [kind |-> kind, n |-> Pushed + 1])
       IN  /\ input_events' = r.queue
           /\ mailbox' = Sent(mailbox, r.notify)
    /\ UNCHANGED <<backend, drained>>
    /\ UNCHANGED parseVars
    /\ UNCHANGED storeVars
    /\ UNCHANGED renderVars

\* set_input_target(pid)
SetInputTarget(pid) ==
    /\ LET r == set_target(input_events, pid)
       IN  /\ input_events' = r.queue
           /\ mailbox' = Sent(mailbox, r.notify)
    /\ UNCHANGED <<backend, drained>>
    /\ UNCHANGED parseVars
    /\ UNCHANGED storeVars
    /\ UNCHANGED renderVars

\* drain_input_events
DrainInputEvents ==
    /\ Len(drained) < MaxDrains
    /\ drained' = Append(drained, Collected(input_events))
    /\ input_events' = drain(input_events)
    /\ UNCHANGED <<backend, mailbox>>
    /\ UNCHANGED parseVars
    /\ UNCHANGED storeVars
    /\ UNCHANGED renderVars

NextInput ==
    \/ \E kind \in EventKinds : PushInput(kind)
    \/ \E pid \in {None} \cup {Some(p) : p \in Pids} : SetInputTarget(pid)
    \/ DrainInputEvents

\* the input queue of a started driver under pushes, target changes and drains
SpecInput == Init /\ [][NextInput]_vars

----------------------------------------------------------------------------
(* C31: drain                                                               *)

\* the push numbers of a sequence of events
Numbers(events) == [i \in 1..Len(events) |-> events[i].n]

DrainStep ==
    DrainInputEvents =>
        /\ Last(drained') = input_events.events
        /\ input_events'.events = <<>>

\* C31: a drain returns the events in the queue in the order they were
\* pushed and leaves the queue empty, so a drain that follows a drain
\* without a push returns the empty list; and the lists all drains returned,
\* one after the other and followed by the events still queued, are the
\* events pushed so far, each once and in push order.
C31_DrainReturnsAllOnce ==
    /\ [](Numbers(AllOf(drained) \o input_events.events) = [i \in 1..Pushed |-> i])
    /\ [][DrainStep]_vars

\* two events were drained, then nothing by a second drain, then a third
\* event by a third drain
C31_Witness ==
    /\ Len(drained) = 3
    /\ Numbers(drained[1]) = <<1, 2>>
    /\ drained[2] = <<>>
    /\ Numbers(drained[3]) = <<3>>
    /\ input_events.events = <<>>

----------------------------------------------------------------------------
(* C37, C38: input_ready                                                    *)

\* the messages produced after `d` drains and before the next
NotesSince(d) == {i \in DOMAIN mailbox : mailbox[i].drains = d}

QuietStep ==
    (input_events.notified /\ ~DrainInputEvents) => mailbox' = mailbox

\* C37: at most one input_ready is produced before the first drain and
\* between any drain and the next, however many events are pushed and
\* targets set; while the queue is marked notified, a push or a change of
\* target produces none.
C37_OneNotePerDrain ==
    /\ [](\A d \in 0..MaxDrains : Cardinality(NotesSince(d)) <= 1)
    /\ [][QuietStep]_vars

\* three events were pushed and the target went from "p1" to "p2" with no
\* drain: one message, to "p1"
C37_Witness ==
    /\ drained = <<>>
    /\ Len(input_events.events) = MaxEvents
    /\ input_events.target = Some("p2")
    /\ mailbox = <<[to |-> "p1", drains |-> 0]>>

\* C38: whenever the queue holds events and a target is set, an input_ready
\* was produced for that target after the last drain.
C38_NoLostWakeUp ==
    (input_events.events # <<>> /\ input_events.target # None) =>
        \E i \in NotesSince(Len(drained)) : mailbox[i].to = input_events.target[1]

----------------------------------------------------------------------------
(* C32: the root identifier and the script map                              *)

\* C32: in every state the caller reaches with submit_script,
\* submit_script_with_id, submit_scripts, del_script, reset_scene and
\* set_clear_color, the root identifier is set exactly when the script map
\* has an entry for "_root_", it is then "_root_", and a redraw of that
\* state enters the root script.
C32_RootIffInstalled ==
    /\ IsSome(render_state.root_id) <=> ROOT_ID \in DOMAIN render_state.scripts
    /\ IsSome(render_state.root_id) => render_state.root_id = Some(ROOT_ID)
    /\ IsSome(render_state.root_id) =>
           BeginRedraw(NewExecutor, render_state).frames = <<[id |-> ROOT_ID, pc |-> 1]>>

\* del_script took the root script away from a store that also holds "a"
C32_Witness ==
    /\ api_result = [call |-> "del_script", ok |-> TRUE, err |-> ""]
    /\ IdA \in DOMAIN render_state.scripts
    /\ ROOT_ID \notin DOMAIN render_state.scripts
    /\ render_state.root_id = None

----------------------------------------------------------------------------
(* C33: the canvas between redraws                                          *)

\* the most operations of a root script here
MaxFrameOps == 3
FrameOps == {OpPushState, OpPopState, OpTranslate, OpDrawRect}
FrameStores ==
    { [DefaultRenderState EXCEPT !.scripts = (ROOT_ID :> ops), !.root_id = Some(ROOT_ID)] :
          ops \in SeqsUpTo(FrameOps, MaxFrameOps) }

\* a raster driver whose render thread makes its first redraw of an
\* installed store and has one more redraw requested
InitFrames ==
    /\ render_state \in FrameStores
    /\ script = <<>> /\ parsed = Pending /\ built = NoBuild
    /\ rs_lock = "none" /\ dirty = TRUE /\ stop_flag = FALSE
    /\ api = Idle /\ api_result = NoResult
    /\ rpc = "lock" /\ ex = NewExecutor /\ caches = SomeCaches
    /\ gen = 0 /\ frame_gen = 0
    /\ frame_base = [state |-> DefaultRenderState, gen |-> 0]
    /\ HandleAtStart

\* the render thread alone, redrawing twice
SpecFrames == InitFrames /\ [][RenderNext]_vars

\* C33: whenever the render thread is not inside a redraw, the canvas is as
\* the first redraw found it: no save outstanding, no transform and no clip.
C33_CanvasRestoredBetweenFrames ==
    rpc # "drawing" => (ex.cv.saved = <<>> /\ ex.cv.m = <<>> /\ ex.cv.clip = <<>>)

----------------------------------------------------------------------------
(* Stores of three scripts that reference each other                        *)

\* the longest root script of a store of three
MaxRefLen == 3

\* roots that reference "b" and "c" any number of times, and what "b" and
\* "c" hold: references of each other, of themselves and of the root
RefRoots ==
    SeqsUpTo({OpDrawScript(IdB), OpDrawScript(IdC), OpDrawRect}, MaxRefLen)
RefBodiesB ==
    { <<OpDrawRect>>, <<OpDrawScript(IdC), OpDrawRect>>,
      <<OpDrawScript(IdC), OpDrawScript(ROOT_ID), OpDrawScript(IdC)>> }
RefBodiesC ==
    { <<OpDrawRect>>, <<OpDrawRect, OpDrawScript(IdB)>>,
      <<OpDrawScript(IdC), OpDrawRect>> }
RefStores ==
    { [StoreWith(r, b) EXCEPT !.scripts = MapInsert(@, IdC, c)] :
          r \in RefRoots, b \in RefBodiesB, c \in RefBodiesC }

\* the render thread about to make its first redraw of one of these stores
InitRefs ==
    /\ render_state \in RefStores
    /\ script = <<>> /\ parsed = Pending /\ built = NoBuild
    /\ rs_lock = "none" /\ dirty = FALSE /\ stop_flag = FALSE
    /\ api = Idle /\ api_result = NoResult
    /\ rpc = "lock" /\ ex = NewExecutor /\ caches = SomeCaches
    /\ gen = 0 /\ frame_gen = 0
    /\ frame_base = [state |-> DefaultRenderState, gen |-> 0]
    /\ HandleAtStart

SpecRefs == InitRefs /\ [][NextExec]_vars
SpecRefsFair == SpecRefs /\ WF_vars(NextExec)

----------------------------------------------------------------------------
(* C34: the stack of executing identifiers                                  *)

PairwiseDistinct(s) == \A i, j \in 1..Len(s) : s[i] = s[j] => i = j

StackInStore ==
    /\ PairwiseDistinct(ex.stack_ids)
    /\ \A i \in 1..Len(ex.stack_ids) : ex.stack_ids[i] \in DOMAIN render_state.scripts
    /\ Len(ex.stack_ids) <= Cardinality(DOMAIN render_state.scripts)
    /\ Len(ex.frames) = Len(ex.stack_ids)
    /\ Finished => ex.stack_ids = <<>>

\* C34: at every point of a redraw the identifiers on stack_ids are pairwise
\* distinct keys of the script map, so no more of them than there are
\* scripts; the stack is empty once the root's draw_script has returned; and
\* every redraw comes to its end, whatever the scripts reference.
C34_StackDistinctAndRedrawEnds == [](StackInStore) /\ <>Finished

\* all three scripts are executing, and the innermost is about to reference
\* one that is on the stack
C34_Witness ==
    /\ Len(ex.stack_ids) = 3
    /\ HasNextOp
    /\ NextOp.op = "DrawScript"
    /\ OnStack(ex.stack_ids, NextOp.s)

----------------------------------------------------------------------------
(* C35: what the cycle guard lets through                                   *)

\* how often draw_script(id), called while the identifiers of `on` are
\* executing, comes to execute script t
RECURSIVE Entries(_, _, _, _)
RECURSIVE EntriesFrom(_, _, _, _, _)
Entries(state, id, on, t) ==
    IF id \in on \/ id \notin DOMAIN state.scripts
    THEN 0
    ELSE (IF id = t THEN 1 ELSE 0) + EntriesFrom(state, id, on \cup {id}, t, 1)
EntriesFrom(state, id, on, t, i) ==
    IF i > Len(state.scripts[id])
    THEN 0
    ELSE (IF state.scripts[id][i].op = "DrawScript"
          THEN Entries(state, state.scripts[id][i].s, on, t)
          ELSE 0)
         + EntriesFrom(state, id, on, t, i + 1)

\* how often operation j of script t has been executed in this redraw
TimesRun(t, j) == Cardinality({i \in 1..Len(ex.trace) : ex.trace[i] = <<t, j>>})

\* a reference of an installed script that is not executing starts that
\* script; any other reference starts nothing
RefStep ==
    (HasNextOp /\ NextOp.op = "DrawScript") =>
        IF NextOp.s \in DOMAIN render_state.scripts /\ ~OnStack(ex.stack_ids, NextOp.s)
        THEN /\ ex'.stack_ids = Append(ex.stack_ids, NextOp.s)
             /\ Last(ex'.frames) = [id |-> NextOp.s, pc |-> 1]
        ELSE ex'.stack_ids = ex.stack_ids

\* the scripts nothing but the root references
OnlyRootRefers(t) ==
    \A id \in DOMAIN render_state.scripts \ {ROOT_ID} :
        Count(render_state.scripts[id], LAMBDA op : IsRef(op, t)) = 0

RunsPerReference ==
    Finished =>
        \A t \in DOMAIN render_state.scripts \ {ROOT_ID} :
            \A j \in 1..Len(render_state.scripts[t]) :
                /\ TimesRun(t, j) = Entries(render_state, ROOT_ID, {}, t)
                /\ OnlyRootRefers(t) =>
                       TimesRun(t, j) = Count(RootOps, LAMBDA op : IsRef(op, t))

\* C35: a reference is suppressed only when the referenced script is
\* executing: every other reference of an installed script starts it, so at
\* the end of a redraw each operation of a script has run once per reference
\* reached outside that script, k times for k references in the root.
C35_RunsOncePerReference == [](RunsPerReference) /\ [][RefStep]_vars

\* the root referenced "c" twice and "b" once, "b" referenced "c" twice more:
\* the rectangle of "c" was drawn four times
C35_Witness ==
    /\ Finished
    /\ IdC \in DOMAIN render_state.scripts
    /\ RootOps = <<OpDrawScript(IdC), OpDrawScript(IdB), OpDrawScript(IdC)>>
    /\ render_state.scripts[IdB] = <<OpDrawScript(IdC), OpDrawScript(ROOT_ID), OpDrawScript(IdC)>>
    /\ render_state.scripts[IdC] = <<OpDrawRect>>
    /\ TimesRun(IdC, 1) = 4

----------------------------------------------------------------------------
(* C36: bytes left over behind the last operation                           *)

\* C36: a buffer of well-formed operations followed by the first bytes of
\* one more operation, be it a single byte of its opcode or the opcode and
\* part of its fields, is rejected.
C36_RemainderRejected ==
    (parsed # Pending /\ built.defect \in {"truncated", "stray"}) => ~parsed.ok

----------------------------------------------------------------------------
(* A driver with the windowed backend                                       *)

\* the thread of backend::run returns: the renderer could not be created
\* (the event loop is dropped before run_app) or run_app came back
EventLoopGone ==
    /\ backend.kind = "Wayland"
    /\ ~backend.loop_closed
    /\ backend' = [backend EXCEPT !.loop_closed = TRUE]
    /\ UNCHANGED <<input_events, mailbox, drained>>
    /\ UNCHANGED storeVars
    /\ UNCHANGED parseVars
    /\ UNCHANGED renderVars

\* the driver after start with the Wayland backend: handle.dirty is None
InitWindow ==
    /\ render_state = DefaultRenderState
    /\ script = <<>> /\ parsed = Pending /\ built = NoBuild
    /\ rs_lock = "none" /\ dirty = FALSE /\ stop_flag = FALSE
    /\ api = Idle /\ api_result = NoResult
    /\ rpc = "lock" /\ ex = NewExecutor /\ caches = SomeCaches
    /\ gen = 0 /\ frame_gen = 0
    /\ frame_base = [state |-> DefaultRenderState, gen |-> 0]
    /\ backend = WaylandBackend
    /\ input_events = NewInputQueue /\ mailbox = <<>> /\ drained = <<>>

NextWindow ==
    \/ \E bin \in Buffers : SubmitScript(bin)
    \/ \E id \in Ids, bin \in Buffers : SubmitScriptWithId(id, bin)
    \/ \E scripts \in Batches : SubmitScripts(scripts)
    \/ \E id \in Ids : DelScript(id)
    \/ ResetScene
    \/ \E color \in ClearColors : SetClearColor(color)
    \/ EventLoopGone

SpecWindow == InitWindow /\ [][NextWindow]_vars

----------------------------------------------------------------------------
(* C39: a call that returns an error                                        *)

\* the caller made a call in this step and it returned an error
ErrorReturned ==
    /\ api.pc = "idle" /\ api'.pc = "idle"
    /\ backend' = backend
    /\ ~api_result'.ok
    /\ api_result' # NoResult

\* C39: every submit_script, submit_script_with_id, submit_scripts,
\* del_script, reset_scene and set_clear_color call that returns an error
\* has left the render state as it was, also when the error comes from the
\* signal to a windowed backend whose event loop is gone.
C39_ErrorLeavesState == [][ErrorReturned => render_state' = render_state]_vars

----------------------------------------------------------------------------
(* A driver with the direct-display backend                                 *)

\* the most commits the display refuses as busy
MaxBusy == 1

\* StopSignal::Drm with its render thread in the frame loop
DrmBackend == [kind |-> "Drm", loop_closed |-> FALSE, busy |-> 0]

\* SwapBuffers, lock_front_buffer, atomic_commit accepted, wait_for_page_flip:
\* the frame just drawn is on the display
DrmCommitFlipped ==
    /\ rpc = "commit"
    /\ frame_gen' = frame_base.gen
    /\ rpc' = "check_stop"
    /\ UNCHANGED <<ex, caches, frame_base>>
    /\ UNCHANGED storeVars
    /\ UNCHANGED parseVars
    /\ UNCHANGED handleVars

\* atomic_commit refused with EBUSY: the buffer is dropped and the loop
\* starts over (`continue`); the dirty flag, cleared by the swap, is not touched
DrmCommitBusy ==
    /\ rpc = "commit"
    /\ backend.busy < MaxBusy
    /\ backend' = [backend EXCEPT !.busy = @ + 1]
    /\ rpc' = "check_stop"
    /\ UNCHANGED <<ex, caches, frame_gen, frame_base>>
    /\ UNCHANGED <<input_events, mailbox, drained>>
    /\ UNCHANGED storeVars
    /\ UNCHANGED parseVars

\* the driver after start with the DRM backend: a root script is installed
\* and its first frame is on the display
InitDrm ==
    /\ render_state = StoreOf(<<OpDrawRect>>)
    /\ script = <<>> /\ parsed = Pending /\ built = NoBuild
    /\ rs_lock = "none" /\ dirty = FALSE /\ stop_flag = FALSE
    /\ api = Idle /\ api_result = NoResult
    /\ rpc = "check_stop" /\ ex = NewExecutor /\ caches = SomeCaches
    /\ gen = 0 /\ frame_gen = 0
    /\ frame_base = [state |-> StoreOf(<<OpDrawRect>>), gen |-> 0]
    /\ backend = DrmBackend
    /\ input_events = NewInputQueue /\ mailbox = <<>> /\ drained = <<>>

NextDrm ==
    \/ \E color \in ClearColors : SetClearColor(color)
    \/ ResetScene
    \/ SignalRedraw
    \/ RenderNext
    \/ DrmCommitFlipped
    \/ DrmCommitBusy

SpecDrm == InitDrm /\ [][NextDrm]_vars

\* the render thread keeps running, a call that updated the state goes on to
\* signal_redraw, and a commit is answered
SpecDrmFair ==
    SpecDrm /\ WF_vars(RenderNext) /\ WF_vars(SignalRedraw)
            /\ WF_vars(DrmCommitFlipped \/ DrmCommitBusy)

----------------------------------------------------------------------------
(* C40: a commit refused as busy                                            *)

\* C40: in the direct-display loop every mutation is followed by a frame
\* on the display that was drawn from a state at least as new, also when a
\* commit in between was refused as busy and no later mutation sets the
\* dirty flag again.
C40_BusyFrameCommittedLater ==
    \A g \in 1..MaxGen : (gen >= g) ~> (frame_gen >= g)

====
